---- MODULE Spec2Model ----
(***************************************************************************)
(* A model of the batch scripts under scripts/: the filename classifier    *)
(* and organizer (organize_files.py), the pair matcher and the scoring of  *)
(* summaryEvaluation.py, the scoring and ranking script                    *)
(* AutomaticMetric.py, the grouped summary of countHallucination.py, the   *)
(* section extractor (summaryExtractor.py), the renamer (rename_files.py), *)
(* the string counter CountError.py with the CSV file it writes, and the   *)
(* os.walk enumeration of countStatistics.py.                              *)
(* Each script has its own variables; a specification runs one script (or  *)
(* one of several) and leaves the variables of the others at rest.         *)
(*                                                                         *)
(* A Python str is a sequence of one-character strings, so that substring  *)
(* search, lower-casing, slicing and regular-expression matching are       *)
(* computed rather than assumed.  Category labels are atoms; Python's None *)
(* is None among atoms and NoneStr among strs.                             *)
(***************************************************************************)
EXTENDS Integers, Sequences, FiniteSets, TLC

\* ------------------------------------------------------------------ bounds
\* Longest file name of the classifier's input universe, in fragments.
MaxFrags == 4
\* Longest directory listing handed to organize_files.
MaxFiles == 3
\* Most files in a reference directory.
MaxRefs == 2
\* Most files under a generated-summaries directory.
MaxGens == 2

\* ----------------------------------------------------------------- strings
\* None where a category (an atom) is expected, and where a str is expected.
None == "None"
NoneStr == <<"None">>
\* A local not assigned yet.
Unset == "unset"
UnsetStr == <<"unset">>

Digits == {"0", "1", "2", "3", "4", "5", "6", "7", "8", "9"}

\* str.lower() on the letters the model's names use.
UpperToLower ==
    [c \in {"A","B","C","D","E","F","G","H","I","J","K","L","M","N","O","P",
            "Q","R","S","T","U","V","W","X","Y","Z"} |->
       CASE c = "A" -> "a" [] c = "B" -> "b" [] c = "C" -> "c" [] c = "D" -> "d"
         [] c = "E" -> "e" [] c = "F" -> "f" [] c = "G" -> "g" [] c = "H" -> "h"
         [] c = "I" -> "i" [] c = "J" -> "j" [] c = "K" -> "k" [] c = "L" -> "l"
         [] c = "M" -> "m" [] c = "N" -> "n" [] c = "O" -> "o" [] c = "P" -> "p"
         [] c = "Q" -> "q" [] c = "R" -> "r" [] c = "S" -> "s" [] c = "T" -> "t"
         [] c = "U" -> "u" [] c = "V" -> "v" [] c = "W" -> "w" [] c = "X" -> "x"
         [] c = "Y" -> "y" [] c = "Z" -> "z"]

LowerChar(c) == IF c \in DOMAIN UpperToLower THEN UpperToLower[c] ELSE c

\* s.lower()
Lower(s) == [i \in 1..Len(s) |-> LowerChar(s[i])]

\* p in s  (substring containment)
Contains(s, p) ==
    \/ p = <<>>
    \/ \E i \in 1..(Len(s) - Len(p) + 1) :
          s[i] = p[1] /\ SubSeq(s, i, i + Len(p) - 1) = p

\* s.endswith(p)
EndsWith(s, p) ==
    /\ Len(p) <= Len(s)
    /\ SubSeq(s, Len(s) - Len(p) + 1, Len(s)) = p

AllDigits(s) == \A i \in 1..Len(s) : s[i] \in Digits

RECURSIVE Concat(_)
\* "".join(parts)
Concat(parts) ==
    IF parts = <<>> THEN <<>> ELSE Head(parts) \o Concat(Tail(parts))

RECURSIVE SeqsUpTo(_, _)
\* The sequences over S of length at most n.
SeqsUpTo(S, n) ==
    IF n = 0 THEN {<<>>}
    ELSE LET shorter == SeqsUpTo(S, n - 1)
         IN  shorter \cup {Append(q, x) : q \in shorter, x \in S}

DotTxt == <<".","t","x","t">>

\* ------------------------------------------- organize_files.py: classifier
shot_patterns ==
    << [category |-> "oneshot",
        patterns |-> << <<"o","n","e","-","s","h","o","t">>,
                        <<"o","n","e","s","h","o","t">>,
                        <<"1","-","s","h","o","t">>,
                        <<"1","s","h","o","t">> >>],
       [category |-> "zeroshot",
        patterns |-> << <<"z","e","r","o","-","s","h","o","t">>,
                        <<"z","e","r","o","s","h","o","t">>,
                        <<"0","-","s","h","o","t">>,
                        <<"0","s","h","o","t">> >>],
       [category |-> "fewshot",
        patterns |-> << <<"f","e","w","-","s","h","o","t">>,
                        <<"f","e","w","s","-","s","h","o","t">>,
                        <<"f","e","w","s","h","o","t">>,
                        <<"k","-","s","h","o","t">>,
                        <<"k","s","h","o","t">> >>] >>

model_patterns ==
    << [category |-> "llama",
        patterns |-> << <<"l","l","a","m","a">>,
                        <<"l","l","a","m","a","2">>,
                        <<"l","l","a","m","a","-","2">> >>],
       [category |-> "qwen",
        patterns |-> << <<"q","w","e","n">>,
                        <<"q","w","e","n","-","7","b">>,
                        <<"q","w","e","n","-","1","4","b">> >>],
       [category |-> "chatgpt",
        patterns |-> << <<"c","h","a","t","g","p","t">>,
                        <<"c","h","a","t">>,
                        <<"g","p","t">>,
                        <<"g","p","t","-","3",".","5">>,
                        <<"g","p","t","-","4">> >>] >>

ShotCategories == {shot_patterns[k].category : k \in DOMAIN shot_patterns}
ModelCategories == {model_patterns[k].category : k \in DOMAIN model_patterns}

\* any(pattern.lower() in filename_lower for pattern in patterns)
AnyPatternIn(patterns, filename_lower) ==
    \E j \in DOMAIN patterns : Contains(filename_lower, Lower(patterns[j]))

RECURSIVE ScanFrom(_, _, _)
\* The for ... break loop over table.items(), from entry k on.
ScanFrom(table, filename_lower, k) ==
    IF k > Len(table) THEN None
    ELSE IF AnyPatternIn(table[k].patterns, filename_lower)
         THEN table[k].category
         ELSE ScanFrom(table, filename_lower, k + 1)

RECURSIVE ScanBackFrom(_, _, _)
\* The same loop without the break: the last matching entry wins.
ScanBackFrom(table, filename_lower, k) ==
    IF k < 1 THEN None
    ELSE IF AnyPatternIn(table[k].patterns, filename_lower)
         THEN table[k].category
         ELSE ScanBackFrom(table, filename_lower, k - 1)

FindCategoryNoBreak(table, filename_lower) ==
    ScanBackFrom(table, filename_lower, Len(table))

\* One of the two loops of determine_categories.
FindCategory(table, filename_lower) == ScanFrom(table, filename_lower, 1)

\* determine_categories(filename) -> (shot_category, model_category)
determine_categories(filename) ==
    LET filename_lower == Lower(filename)
    IN  << FindCategory(shot_patterns, filename_lower),
           FindCategory(model_patterns, filename_lower) >>

\* Positions at which re.search(r'\d{6}', s) can match.
SixDigitStarts(s) ==
    {i \in 1..(Len(s) - 5) : \A k \in 0..5 : s[i + k] \in Digits}

Min(S) == CHOOSE x \in S : \A y \in S : x <= y

\* A digit run of exactly six: \d{6} anchored to non-digits on both sides.
SixDigitStartsExact(s) ==
    {i \in SixDigitStarts(s) :
        /\ (i = 1 \/ s[i - 1] \notin Digits)
        /\ (i + 6 > Len(s) \/ s[i + 6] \notin Digits)}

get_six_digit_number_exact(filename) ==
    LET starts == SixDigitStartsExact(filename)
    IN  IF starts = {} THEN NoneStr
        ELSE SubSeq(filename, Min(starts), Min(starts) + 5)

\* get_six_digit_number: re.search(r'\d{6}', filename), leftmost match.
get_six_digit_number(filename) ==
    LET starts == SixDigitStarts(filename)
    IN  IF starts = {} THEN NoneStr
        ELSE SubSeq(filename, Min(starts), Min(starts) + 5)

\* ------------------------------------------------ the classifier's inputs
Fragments ==
    { <<"o","n","e","s","h","o","t">>,
      <<"Z","e","r","o","-","S","h","o","t">>,
      <<"l","l","a","m","a">>,
      <<"C","h","a","t">>,
      <<"2","0","1","3">>,
      <<"0","1">>,
      <<"_">> }

\* File names *.txt made of one to MaxFrags fragments.
FileNames ==
    {Concat(q) \o DotTxt : q \in SeqsUpTo(Fragments, MaxFrags) \ {<<>>}}


\* Names handed to organize_files by glob('**/*.txt').
Frag_date == <<"2","0","1","3","0","1">>
Frag_day == <<"0","1">>
Frag_llama == <<"l","l","a","m","a">>
Frag_Chat == <<"C","h","a","t">>
Frag_oneshot == <<"o","n","e","s","h","o","t">>
Frag_ZeroShot == <<"Z","e","r","o","-","S","h","o","t">>
Frag_us == <<"_">>

InputNames ==
    { Concat(<<Frag_date, Frag_us, Frag_llama, Frag_us, Frag_oneshot, DotTxt>>),
      Concat(<<Frag_date, Frag_us, Frag_Chat, Frag_us, Frag_ZeroShot, DotTxt>>),
      Concat(<<Frag_oneshot, Frag_us, Frag_llama, Frag_date, DotTxt>>),
      Concat(<<Frag_llama, Frag_us, Frag_oneshot, DotTxt>>),
      Concat(<<Frag_date, Frag_us, Frag_oneshot, DotTxt>>),
      Concat(<<Frag_date, Frag_us, Frag_llama, DotTxt>>),
      Concat(<<Frag_date, Frag_day, Frag_us, Frag_llama, Frag_us, Frag_oneshot, DotTxt>>) }

\* ------------------------------------------------------------------- state
VARIABLES
    \* organize_files.py: FileOrganizer and the locals of organize_files
    org_pc,              \* "idle", "start", "loop", "returned", "raised"
    dry_run,             \* self.dry_run
    text_files,          \* the listing; a file's path is its position in it
    processed_files,
    successful_moves,
    unclassified_files,  \* paths, in the order appended
    stats,               \* stats[shot][model] and stats["unclassified"]
    file_name,           \* file_path.name of the current iteration
    shot_cat,
    model_cat,
    six_digit,
    error,               \* the exception caught by the iteration, or None
    output_files,        \* output_dir: <<shot, model, new_filename>> -> source path
    org_result,          \* what organize_files returned
    report,              \* organization_report.txt: <<>> or <<what was written>>
    org_fs,              \* what validate_directories did to output_dir, in order
    org_exit,            \* the exit status of main, -1 while running
    \* summaryEvaluation.py: read_summaries
    ev_pc,               \* "idle", "scan", "walk", "returned"
    ref_listing,         \* os.listdir(reference_dir), in scan order
    ref_i,               \* reference files scanned so far
    reference_mapping,   \* identifier -> reference file
    gen_listing,         \* the files os.walk(generated_base_dir) yields, in order
    gen_i,               \* generated files visited so far
    ref_status,          \* what opening a reference file gave, once opened
    gen_status,          \* what opening each visited generated file gave
    ref_path,            \* reference_mapping.get(identifier, None) of the last visit
    summary_pairs,
    ev_log,              \* the warnings printed, in order
    \* AutomaticMetric.py
    am_pc,               \* "idle", "loop", "rank", "write", "done", "crashed"
    am_refs,             \* os.listdir(reference_dir)
    am_files,            \* the files of the nested loops, in iteration order
    am_i,                \* files the loops have gone through
    am_scored,           \* what the scorers returned, call by call
    results,
    rank_runs,           \* times the ranking step has run
    csv_rows,            \* the rows written to automatic_scores.csv
    \* countHallucination.py: HallucinationAnalyzer
    ch_pc,               \* "idle", "loop", "frame", "summary", "returned", "raised"
    ch_files,            \* the *.txt files of the nested loops, in iteration order
    ch_i,                \* processed_files
    ch_results,          \* results, the list of per-file dicts
    df,                  \* the DataFrame handed to create_summary
    group_summary,       \* the rows written to summary_<output file>
    summary_runs,        \* times create_summary has run
    ch_result,           \* what analyze_directories returned
    \* summaryExtractor.py: DocumentProcessor.process_documents and main
    ex_pc,               \* "idle", "main", "start", "loop", "returned", "exited"
    ex_listing,          \* what the glob over input_dir gives
    ex_patterns,         \* self.patterns
    doc_files,           \* find_docx_files()
    ex_content,          \* the documents opened so far, by position in doc_files
    ex_i,                \* processed_files
    ex_j,                \* patterns done for the current document
    successful_extractions,
    ex_saved,            \* output_dir: file name -> text written
    ex_result,           \* what process_documents returned
    ex_exit,             \* the exit status of main, -1 while running
    \* os.walk(root) as the scripts call it
    wk_pc,               \* "idle", "walking", "done"
    wk_tree,             \* the directory tree under the root
    wk_stack,            \* the directories still to be listed, next one first
    wk_visits,           \* how often each directory has been listed
    wk_out,              \* the (dirpath, filename) pairs yielded so far
    \* rename_files.py: main and FileRenamer.rename_files
    rn_pc,               \* "idle", "main", "regex", "start", "copy", "returned", "raised", "exited"
    rn_args,             \* the parsed arguments
    rn_tree,             \* the tree under the input directory
    rn_files,            \* find_files()
    rename_map,          \* the (old_path, new_path) pairs, in insertion order
    rn_processed,        \* processed_files
    successful_renames,
    rn_fs,               \* what the run did to the file system, in order
    rn_result,           \* what rename_files returned
    rn_exit,             \* the exit status of main, -1 while running
    \* summaryEvaluation.py: main, the scoring of the matched pairs
    sc_pc,               \* where main is
    sc_rows,             \* the rows of df: for each pair, the metrics whose scorer raises on it
    sc_k,                \* how many metrics have been computed
    sc_df,               \* the score columns of df, in the order they were added
    sc_csv,              \* what output_csv holds
    \* CountError.py: main
    ce_pc,               \* where main is
    file_pattern,        \* args.file_pattern, the prefix looked for
    matching_files,      \* list(find_matching_files(root_dir, file_pattern))
    \* countStatistics.py: main
    cs_pc,               \* where main is
    cs_files,            \* text_files as traverse_directory returned it
    cs_i,                \* how many files the loop has gone through
    cs_opens,            \* for each file gone through, how many times open() was called on it
    cs_processed,        \* how many files were added to the totals
    cs_exit,             \* the exit status, -1 while running
    \* CountError.py: counting and saving
    target_strings,      \* args.strings
    cn_reads,            \* the lines each matching file gave before its end or an exception
    aggregated,          \* aggregated_counts, in insertion order
    csv_text             \* what the output file holds

orgVars ==
    << org_pc, dry_run, text_files, processed_files, successful_moves,
       unclassified_files, stats, error, output_files, org_result, report,
       org_fs, org_exit >>

clsVars == << file_name, shot_cat, model_cat, six_digit >>

evVars ==
    << ev_pc, ref_listing, ref_i, reference_mapping, gen_listing, gen_i,
       ref_status, gen_status, ref_path, summary_pairs, ev_log >>

amVars ==
    << am_pc, am_refs, am_files, am_i, am_scored, results, rank_runs, csv_rows >>

chVars ==
    << ch_pc, ch_files, ch_i, ch_results, df, group_summary, summary_runs, ch_result >>

exVars ==
    << ex_pc, ex_listing, ex_patterns, doc_files, ex_content, ex_i, ex_j, successful_extractions, ex_saved, ex_result, ex_exit >>

wkVars ==
    << wk_pc, wk_tree, wk_stack, wk_visits, wk_out >>

rnVars ==
    << rn_pc, rn_args, rn_tree, rn_files, rename_map, rn_processed, successful_renames, rn_fs, rn_result, rn_exit >>

scVars ==
    << sc_pc, sc_rows, sc_k, sc_df, sc_csv >>

ceVars ==
    << ce_pc, file_pattern, matching_files >>

csVars ==
    << cs_pc, cs_files, cs_i, cs_opens, cs_processed, cs_exit >>

cnVars ==
    << target_strings, cn_reads, aggregated, csv_text >>

vars == << orgVars, clsVars, evVars, amVars, chVars, exVars, wkVars, rnVars, scVars, ceVars, csVars, cnVars >>

\* What the steps of one script leave alone: the other scripts' state.
notOrgVars == << evVars, amVars, chVars, exVars, wkVars, rnVars, scVars, ceVars, csVars, cnVars >>
notEvVars == << orgVars, clsVars, amVars, chVars, exVars, wkVars, rnVars, scVars, ceVars, csVars, cnVars >>
notAmVars == << orgVars, clsVars, evVars, chVars, exVars, wkVars, rnVars, scVars, ceVars, csVars, cnVars >>
notChVars == << orgVars, clsVars, evVars, amVars, exVars, wkVars, rnVars, scVars, ceVars, csVars, cnVars >>
notExVars == << orgVars, clsVars, evVars, amVars, chVars, wkVars, rnVars, scVars, ceVars, csVars, cnVars >>
notWkVars == << orgVars, clsVars, evVars, amVars, chVars, exVars, rnVars, scVars, ceVars, csVars, cnVars >>
notRnVars == << orgVars, clsVars, evVars, amVars, chVars, exVars, wkVars, scVars, ceVars, csVars, cnVars >>
notScVars == << orgVars, clsVars, evVars, amVars, chVars, exVars, wkVars, rnVars, ceVars, csVars, cnVars >>
notCeVars == << orgVars, clsVars, evVars, amVars, chVars, exVars, wkVars, rnVars, scVars, csVars, cnVars >>
notCsVars == << orgVars, clsVars, evVars, amVars, chVars, exVars, wkVars, rnVars, scVars, ceVars, cnVars >>
notCnVars == << orgVars, clsVars, evVars, amVars, chVars, exVars, wkVars, rnVars, scVars, ceVars, csVars >>
notCountVars == << orgVars, clsVars, evVars, amVars, chVars, exVars, wkVars, rnVars, scVars, csVars >>

\* ------------------------------------------- organize_files.py: organizer
\* stats = {shot: {model: 0 ...} ...}; stats['unclassified'] = 0
InitialStats ==
    [k \in ShotCategories \cup {"unclassified"} |->
        IF k = "unclassified" THEN 0 ELSE [m \in ModelCategories |-> 0]]

\* not all([shot_cat, model_cat, six_digit]): None and '' are falsy.
Falsy(v) == v = None
FalsyStr(v) == v = NoneStr \/ v = <<>>

\* The check with the document id left out.
NotAllCategories(shot, model, digits) == Falsy(shot) \/ Falsy(model)

\* not all([shot_cat, model_cat, six_digit])
NotAll(shot, model, digits) == Falsy(shot) \/ Falsy(model) \/ FalsyStr(digits)

\* f"{six_digit}.txt"
NewFilename(digits) == digits \o DotTxt

\* A function with one more (or one replaced) entry.
Put(f, k, v) == [x \in DOMAIN f \cup {k} |-> IF x = k THEN v ELSE f[x]]

\* The except clause that lets the exception leave the loop.
ExceptReraise(files, st, path) ==
    [unclassified_files |-> files, stats |-> st, pc |-> "raised"]

\* An except clause that keeps the file and does not count it.
ExceptUncounted(files, st, path) ==
    [unclassified_files |-> Append(files, path), stats |-> st, pc |-> "loop"]

\* except Exception as e: the file goes to the unclassified bucket.
ExceptClause(files, st, path) ==
    [unclassified_files |-> Append(files, path),
     stats |-> [st EXCEPT !["unclassified"] = @ + 1],
     pc |-> "loop"]

OrgIdle ==
    /\ org_pc = "idle"
    /\ dry_run = FALSE
    /\ text_files = <<>>
    /\ processed_files = 0
    /\ successful_moves = 0
    /\ unclassified_files = <<>>
    /\ stats = InitialStats
    /\ error = None
    /\ output_files = <<>>
    /\ org_result = Unset
    /\ report = <<>>
    /\ org_fs = <<>>
    /\ org_exit = -1

ClsIdle ==
    /\ file_name = UnsetStr
    /\ shot_cat = Unset
    /\ model_cat = Unset
    /\ six_digit = UnsetStr

EvIdle ==
    /\ ev_pc = "idle"
    /\ ref_listing = <<>>
    /\ ref_i = 0
    /\ reference_mapping = <<>>
    /\ gen_listing = <<>>
    /\ gen_i = 0
    /\ ref_status = <<>>
    /\ gen_status = <<>>
    /\ ref_path = NoneStr
    /\ summary_pairs = <<>>
    /\ ev_log = <<>>

AmIdle ==
    /\ am_pc = "idle"
    /\ am_refs = <<>>
    /\ am_files = <<>>
    /\ am_i = 0
    /\ am_scored = <<>>
    /\ results = <<>>
    /\ rank_runs = 0
    /\ csv_rows = <<>>

ChIdle ==
    /\ ch_pc = "idle"
    /\ ch_files = <<>>
    /\ ch_i = 0
    /\ ch_results = <<>>
    /\ df = <<>>
    /\ group_summary = <<>>
    /\ summary_runs = 0
    /\ ch_result = Unset

ExIdle ==
    /\ ex_pc = "idle"
    /\ ex_listing = <<>>
    /\ ex_patterns = <<>>
    /\ doc_files = <<>>
    /\ ex_content = <<>>
    /\ ex_i = 0
    /\ ex_j = 0
    /\ successful_extractions = 0
    /\ ex_saved = <<>>
    /\ ex_result = Unset
    /\ ex_exit = -1

WkIdle ==
    /\ wk_pc = "idle"
    /\ wk_tree = <<>>
    /\ wk_stack = <<>>
    /\ wk_visits = <<>>
    /\ wk_out = <<>>

RnIdle ==
    /\ rn_pc = "idle"
    /\ rn_args = <<>>
    /\ rn_tree = <<>>
    /\ rn_files = <<>>
    /\ rename_map = <<>>
    /\ rn_processed = 0
    /\ successful_renames = 0
    /\ rn_fs = <<>>
    /\ rn_result = Unset
    /\ rn_exit = -1

ScIdle ==
    /\ sc_pc = "idle"
    /\ sc_rows = <<>>
    /\ sc_k = 0
    /\ sc_df = <<>>
    /\ sc_csv = <<>>

CeIdle ==
    /\ ce_pc = "idle"
    /\ file_pattern = <<>>
    /\ matching_files = <<>>

CsIdle ==
    /\ cs_pc = "idle"
    /\ cs_files = <<>>
    /\ cs_i = 0
    /\ cs_opens = <<>>
    /\ cs_processed = 0
    /\ cs_exit = -1

CnIdle ==
    /\ target_strings = <<>>
    /\ cn_reads = <<>>
    /\ aggregated = <<>>
    /\ csv_text = <<>>

\* FileOrganizer(...) constructed, organize_files about to run on a listing.
InitOrganize ==
    /\ CnIdle
    /\ CsIdle
    /\ CeIdle
    /\ ScIdle
    /\ RnIdle
    /\ WkIdle
    /\ ExIdle
    /\ org_pc = "start"
    /\ dry_run \in BOOLEAN
    /\ text_files \in SeqsUpTo(InputNames, MaxFiles)
    /\ processed_files = 0
    /\ successful_moves = 0
    /\ unclassified_files = <<>>
    /\ stats = InitialStats
    /\ error = None
    /\ output_files = <<>>
    /\ org_result = Unset
    /\ report = <<>>
    /\ org_fs = <<>>
    /\ org_exit = -1
    /\ ClsIdle
    /\ EvIdle
    /\ AmIdle
    /\ ChIdle

\* if not text_files: return False
OrganizeNoFiles ==
    /\ org_pc = "start"
    /\ text_files = <<>>
    /\ org_pc' = "returned"
    /\ org_result' = FALSE
    /\ UNCHANGED << dry_run, text_files, processed_files, successful_moves,
                    unclassified_files, stats, error, output_files, report,
                    org_fs, org_exit, clsVars, notOrgVars >>

OrganizeEnterLoop ==
    /\ org_pc = "start"
    /\ text_files # <<>>
    /\ org_pc' = "loop"
    /\ UNCHANGED << dry_run, text_files, processed_files, successful_moves,
                    unclassified_files, stats, error, output_files, org_result,
                    report, org_fs, org_exit, clsVars, notOrgVars >>

\* The part of an iteration every file goes through.
IterationHead ==
    /\ org_pc = "loop"
    /\ processed_files < Len(text_files)
    /\ processed_files' = processed_files + 1
    /\ file_name' = text_files[processed_files + 1]
    /\ LET categories == determine_categories(text_files[processed_files + 1])
       IN  /\ shot_cat' = categories[1]
           /\ model_cat' = categories[2]
    /\ six_digit' = get_six_digit_number(text_files[processed_files + 1])
    /\ UNCHANGED << dry_run, text_files, org_result, report, org_fs, org_exit,
                    notOrgVars >>

\* "Could not classify": the continue branch.
IterationUnclassified ==
    /\ IterationHead
    /\ NotAll(shot_cat', model_cat', six_digit')
    /\ unclassified_files' = Append(unclassified_files, processed_files + 1)
    /\ stats' = [stats EXCEPT !["unclassified"] = @ + 1]
    /\ error' = None
    /\ UNCHANGED << org_pc, successful_moves, output_files >>

\* A dry run that does not count the files it would move.
MovesDryUncounted(dry, n) == IF dry THEN n ELSE n + 1

\* successful_moves += 1, once in the branch of the real run and once in
\* the branch of the dry run.
MovesAfter(dry, n) == IF dry THEN n + 1 ELSE n + 1

\* The file is counted; outside a dry run it is copied to its target first.
IterationOrganized ==
    /\ IterationHead
    /\ ~NotAll(shot_cat', model_cat', six_digit')
    /\ output_files' =
         IF dry_run THEN output_files
         ELSE Put(output_files, <<shot_cat', model_cat', NewFilename(six_digit')>>,
                  processed_files + 1)
    /\ successful_moves' = MovesAfter(dry_run, successful_moves)
    /\ stats' = [stats EXCEPT ![shot_cat'][model_cat'] = @ + 1]
    /\ error' = None
    /\ UNCHANGED << org_pc, unclassified_files >>

\* mkdir or copy2 raises; copy2 may have written the target already
\* (copyfile done, copystat failed).
IterationCopyRaises ==
    /\ IterationHead
    /\ ~NotAll(shot_cat', model_cat', six_digit')
    /\ ~dry_run
    /\ \E written \in BOOLEAN :
         output_files' =
           IF written
           THEN Put(output_files, <<shot_cat', model_cat', NewFilename(six_digit')>>,
                    processed_files + 1)
           ELSE output_files
    /\ error' = "copy"
    /\ LET handled == ExceptClause(unclassified_files, stats, processed_files + 1)
       IN  /\ unclassified_files' = handled.unclassified_files
           /\ stats' = handled.stats
           /\ org_pc' = handled.pc
    /\ UNCHANGED successful_moves

\* What create_report writes: the statistics and the unclassified files.
ReportOf(st, files) == << [stats |-> st, unclassified_files |-> files] >>

\* The epilogue that writes the report in a dry run as well.
AlwaysReport(dry, old, st, files) == ReportOf(st, files)

\* if not self.dry_run: self.create_report(stats, unclassified_files)
CreateReport(dry, old, st, files) == IF dry THEN old ELSE ReportOf(st, files)

\* print_summary, create_report, return successful_moves > 0
OrganizeReturn ==
    /\ org_pc = "loop"
    /\ processed_files = Len(text_files)
    /\ org_pc' = "returned"
    /\ report' = CreateReport(dry_run, report, stats, unclassified_files)
    /\ org_result' = (successful_moves > 0)
    /\ UNCHANGED << dry_run, text_files, processed_files, successful_moves,
                    unclassified_files, stats, error, output_files, org_fs,
                    org_exit, clsVars, notOrgVars >>

\* create_report cannot open or write the report: the exception leaves
\* organize_files after the loop.
OrganizeReportRaises ==
    /\ org_pc = "loop"
    /\ processed_files = Len(text_files)
    /\ ~dry_run
    /\ org_pc' = "report_raised"
    /\ UNCHANGED << dry_run, text_files, processed_files, successful_moves,
                    unclassified_files, stats, error, output_files, org_result,
                    report, org_fs, org_exit, clsVars, notOrgVars >>

NextOrganize ==
    \/ OrganizeNoFiles
    \/ OrganizeEnterLoop
    \/ IterationUnclassified
    \/ IterationOrganized
    \/ IterationCopyRaises
    \/ OrganizeReturn
    \/ OrganizeReportRaises

SpecOrganize == InitOrganize /\ [][NextOrganize]_vars

\* ------------------------------------------------ organize_files.py: main
\* What validate_directories can have done to output_dir when it returns:
\* nothing in a dry run; otherwise makedirs, the test file written, the test
\* file removed, stopping at the first step that raises.
ValidationEffects(dry, writable) ==
    IF dry THEN {<<>>}
    ELSE IF writable THEN {<<"makedirs", "test_write", "test_remove">>}
    ELSE {<<>>, <<"makedirs">>, <<"makedirs", "test_write">>}

\* main is entered with the arguments parsed.
InitOrganizeMain ==
    /\ CnIdle
    /\ CsIdle
    /\ CeIdle
    /\ ScIdle
    /\ RnIdle
    /\ WkIdle
    /\ ExIdle
    /\ org_pc = "main"
    /\ dry_run \in BOOLEAN
    /\ text_files \in SeqsUpTo(InputNames, MaxFiles)
    /\ processed_files = 0
    /\ successful_moves = 0
    /\ unclassified_files = <<>>
    /\ stats = InitialStats
    /\ error = None
    /\ output_files = <<>>
    /\ org_result = Unset
    /\ report = <<>>
    /\ org_fs = <<>>
    /\ org_exit = -1
    /\ ClsIdle
    /\ EvIdle
    /\ AmIdle
    /\ ChIdle

\* validate_directories and parser.error: a missing input directory or an
\* output directory that cannot be written ends the program with status 2.
OrganizeValidate ==
    /\ org_pc = "main"
    /\ \E input_exists \in BOOLEAN, writable \in BOOLEAN :
          IF ~input_exists
          THEN org_fs' = <<>> /\ org_exit' = 2 /\ org_pc' = "exited"
          ELSE /\ org_fs' \in ValidationEffects(dry_run, writable)
               /\ IF dry_run \/ writable
                  THEN org_exit' = org_exit /\ org_pc' = "start"
                  ELSE org_exit' = 2 /\ org_pc' = "exited"
    /\ UNCHANGED << dry_run, text_files, processed_files, successful_moves,
                    unclassified_files, stats, error, output_files, org_result,
                    report, clsVars, notOrgVars >>

\* sys.exit(0 if success else 1); an exception out of organize_files gives 1.
OrganizeExit ==
    /\ org_pc \in {"returned", "report_raised"}
    /\ org_exit' = IF org_pc = "returned" /\ org_result THEN 0 ELSE 1
    /\ org_pc' = "exited"
    /\ UNCHANGED << dry_run, text_files, processed_files, successful_moves,
                    unclassified_files, stats, error, output_files, org_result,
                    report, org_fs, clsVars, notOrgVars >>

NextOrganizeMain ==
    \/ OrganizeValidate
    \/ NextOrganize
    \/ OrganizeExit

SpecOrganizeMain == InitOrganizeMain /\ [][NextOrganizeMain]_vars

\* --------------------------------------- the classifier as a pure function
InitClassify ==
    /\ CnIdle
    /\ CsIdle
    /\ CeIdle
    /\ ScIdle
    /\ RnIdle
    /\ WkIdle
    /\ ExIdle
    /\ OrgIdle
    /\ EvIdle
    /\ AmIdle
    /\ ChIdle
    /\ file_name \in FileNames
    /\ shot_cat = Unset
    /\ model_cat = Unset
    /\ six_digit = UnsetStr

\* shot_cat, model_cat = determine_categories(name); six_digit = get_six_digit_number(name)
ClassifyName ==
    /\ shot_cat = Unset
    /\ LET categories == determine_categories(file_name)
       IN  /\ shot_cat' = categories[1]
           /\ model_cat' = categories[2]
    /\ six_digit' = get_six_digit_number(file_name)
    /\ UNCHANGED << file_name, orgVars, notOrgVars >>

NextClassify == ClassifyName

SpecClassify == InitClassify /\ [][NextClassify]_vars


\* ------------------------------------------------- claims: the classifier
\* The categories in the order the tables declare them.
ShotOrder == <<"oneshot", "zeroshot", "fewshot">>
ModelOrder == <<"llama", "qwen", "chatgpt">>

\* Some pattern of category cat occurs in the lower-cased name.
CategoryOccurs(table, cat, name) ==
    \E k \in DOMAIN table :
        /\ table[k].category = cat
        /\ \E j \in DOMAIN table[k].patterns :
              Contains(Lower(name), table[k].patterns[j])

\* result is the first category of order that occurs in name, None if none does.
FirstInOrder(order, table, name, result) ==
    /\ (result = None) <=> \A k \in DOMAIN order : ~CategoryOccurs(table, order[k], name)
    /\ \A k \in DOMAIN order :
          (result = order[k]) <=>
              /\ CategoryOccurs(table, order[k], name)
              /\ \A j \in 1..(k - 1) : ~CategoryOccurs(table, order[j], name)

\* C1: determine_categories returns, for each table, the first category in
\* declaration order with a pattern occurring in the lower-cased file name,
\* and None when no category has one.
C1_FirstCategoryWins ==
    shot_cat # Unset =>
        /\ FirstInOrder(ShotOrder, shot_patterns, file_name, shot_cat)
        /\ FirstInOrder(ModelOrder, model_patterns, file_name, model_cat)

\* A name with patterns of two categories in both tables has been classified.
C1_Witness ==
    /\ org_pc = "idle"
    /\ CategoryOccurs(shot_patterns, "oneshot", file_name)
    /\ CategoryOccurs(shot_patterns, "zeroshot", file_name)
    /\ CategoryOccurs(model_patterns, "llama", file_name)
    /\ CategoryOccurs(model_patterns, "chatgpt", file_name)
    /\ shot_cat = "oneshot"
    /\ model_cat = "llama"

\* C3: get_six_digit_number returns the first maximal run of exactly six
\* digits, and None when the name has no such run (a longer run gives None).
C3_ExactSixDigitRun ==
    six_digit # UnsetStr => six_digit = get_six_digit_number_exact(file_name)

\* ---------------------------------------------------- claims: the organizer
\* The name holds a shot pattern, a model pattern and six consecutive digits.
Recognized(name) ==
    /\ \E k \in DOMAIN ShotOrder : CategoryOccurs(shot_patterns, ShotOrder[k], name)
    /\ \E k \in DOMAIN ModelOrder : CategoryOccurs(model_patterns, ModelOrder[k], name)
    /\ \E i \in 1..(Len(name) - 5) : \A k \in 0..5 : name[i + k] \in Digits

\* The iteration counted its file as organized.
CountedOrganized ==
    /\ successful_moves' = successful_moves + 1
    /\ \E s \in ShotCategories, m \in ModelCategories :
          stats' = [stats EXCEPT ![s][m] = @ + 1]
    /\ unclassified_files' = unclassified_files

\* The iteration put its file in the unclassified bucket.
CountedUnclassified ==
    /\ unclassified_files' = Append(unclassified_files, processed_files + 1)
    /\ stats' = [stats EXCEPT !["unclassified"] = @ + 1]
    /\ successful_moves' = successful_moves

IsIteration == processed_files' = processed_files + 1

\* C2 as stated: a file is organized if and only if its name is recognized;
\* an unrecognized one is listed and counted unclassified and is not copied.
C2_OrganizedIffRecognized ==
    [][IsIteration =>
        /\ CountedOrganized <=> Recognized(text_files[processed_files + 1])
        /\ ~Recognized(text_files[processed_files + 1]) =>
              CountedUnclassified /\ output_files' = output_files]_vars

\* C2 amended: a file is organized if and only if its name is recognized and
\* copying it does not raise; an unrecognized one is listed and counted
\* unclassified and is not copied.
C2_OrganizedIffRecognizedAndCopied ==
    [][IsIteration =>
        /\ CountedOrganized <=>
              Recognized(text_files[processed_files + 1]) /\ error' = None
        /\ ~Recognized(text_files[processed_files + 1]) =>
              CountedUnclassified /\ output_files' = output_files]_vars

\* A real run has organized one file and put an unrecognized one aside.
C2_Witness ==
    /\ ~dry_run
    /\ processed_files = 2
    /\ successful_moves = 1
    /\ Len(unclassified_files) = 1
    /\ ~Recognized(text_files[unclassified_files[1]])
    /\ DOMAIN output_files # {}

\* C4: no exception of an iteration leaves the loop; every file processed so
\* far is either counted organized or in the unclassified bucket, a file whose
\* copy raised being in the bucket; and the loop ends only after the last file.
C4_NoHardFailure ==
    /\ org_pc # "raised"
    /\ org_pc \in {"loop", "returned"} =>
          successful_moves + Len(unclassified_files) = processed_files
    /\ error # None =>
          /\ unclassified_files # <<>>
          /\ unclassified_files[Len(unclassified_files)] = processed_files
    /\ org_pc = "returned" => processed_files = Len(text_files)

\* The copy of the first file raised and the second file was still organized.
C4_Witness ==
    /\ org_pc = "returned"
    /\ Len(text_files) = 2
    /\ Recognized(text_files[1])
    /\ unclassified_files = <<1>>
    /\ successful_moves = 1


\* ------------------------------------- summaryEvaluation.py: read_summaries
Whitespace == {" ", "\n", "\t"}

RECURSIVE LStrip(_)
LStrip(s) ==
    IF s # <<>> /\ Head(s) \in Whitespace THEN LStrip(Tail(s)) ELSE s

RECURSIVE RStrip(_)
RStrip(s) ==
    IF s # <<>> /\ s[Len(s)] \in Whitespace
    THEN RStrip(SubSeq(s, 1, Len(s) - 1))
    ELSE s

\* s.strip()
Strip(s) == RStrip(LStrip(s))

\* reference_pattern.search(ref_file): (\d{6})\.txt$, the group or None.
ReferenceIdentifier(ref_file) ==
    LET n == Len(ref_file)
    IN  IF /\ n >= 10
           /\ SubSeq(ref_file, n - 3, n) = DotTxt
           /\ \A k \in (n - 9)..(n - 4) : ref_file[k] \in Digits
        THEN SubSeq(ref_file, n - 9, n - 4)
        ELSE NoneStr

\* generated_pattern.match(file): ^(\d{6})\.txt$, the group or None.
GeneratedIdentifier(file) ==
    IF /\ Len(file) = 10
       /\ SubSeq(file, 7, 10) = DotTxt
       /\ \A k \in 1..6 : file[k] \in Digits
    THEN SubSeq(file, 1, 6)
    ELSE NoneStr

\* The reference directory's possible entries.
RefNames ==
    { <<"1","0","0","0","0","1",".","t","x","t">>,
      <<"r","e","f","_","1","0","0","0","0","1",".","t","x","t">>,
      <<"1","0","0","0","0","2",".","t","x","t">>,
      <<"n","o","t","e","s",".","t","x","t">> }

\* The generated directory's possible files, as paths relative to it.
GenPaths ==
    { << <<"1","0","0","0","0","1",".","t","x","t">> >>,
      <<"oneshot", "llama", <<"1","0","0","0","0","1",".","t","x","t">> >>,
      <<"oneshot", "llama", <<"9","9","9","9","9","9",".","t","x","t">> >>,
      <<"oneshot", "llama", <<"s","u","m","m","a","r","y",".","t","x","t">> >>,
      <<"zeroshot", "qwen", <<"1","0","0","0","0","1",".","t","x","t">> >> }

\* What opening and reading a file can give.
RefStatuses == {"text", "blank", "unreadable", "missing"}
GenStatuses == {"text", "blank", "unreadable"}

\* The directory part of a relative path.
DirOf(parts) == SubSeq(parts, 1, Len(parts) - 1)

Distinct(q) == \A i, j \in DOMAIN q : i # j => q[i] # q[j]

\* os.walk is top-down: the root's own files first, each directory's files together.
WalkOrder(q) ==
    /\ Distinct(q)
    /\ \A i, j \in DOMAIN q : i < j /\ DirOf(q[j]) = <<>> => DirOf(q[i]) = <<>>
    /\ \A i, j, k \in DOMAIN q :
          i < j /\ j < k /\ DirOf(q[i]) = DirOf(q[k]) => DirOf(q[j]) = DirOf(q[i])

\* f.read() of a file holding text, or only white space.
ReferenceContent(ref_file, status) ==
    IF status = "text" THEN <<" ", "r", "e", "f", ":">> \o ref_file \o <<"\n">>
    ELSE <<" ", "\n">>

GeneratedContent(parts, status) ==
    IF status = "text" THEN <<"g", "e", "n", ":">> \o parts[Len(parts)] \o <<"\n">>
    ELSE <<"\n">>

\* reference_mapping[identifier] = path, keeping the first reference seen.
KeepFirst(mapping, identifier, ref_file) ==
    IF identifier \in DOMAIN mapping THEN mapping ELSE Put(mapping, identifier, ref_file)

\* reference_mapping[identifier] = os.path.join(reference_dir, ref_file)
SetReference(mapping, identifier, ref_file) == Put(mapping, identifier, ref_file)

\* reference_mapping.get(identifier, None)
GetReference(mapping, identifier) ==
    IF identifier \in DOMAIN mapping THEN mapping[identifier] ELSE NoneStr

\* learning_mode, model from path_parts
ModeAndModel(parts) ==
    IF Len(parts) < 3 THEN <<"Unknown", "Unknown">> ELSE <<parts[1], parts[2]>>

\* The walk without the else branch: a missing reference is passed over silently.
VisitOutcomeSilent(parts, mapping, gstatus, rstatus) ==
    LET found == GetReference(mapping, GeneratedIdentifier(parts[Len(parts)]))
    IN  IF found = NoneStr \/ rstatus # "text" \/ gstatus # "text"
        THEN [pairs |-> <<>>, log |-> <<>>]
        ELSE [pairs |-> << [Generated_Summary |-> Strip(GeneratedContent(parts, gstatus)),
                            Reference_Summary |-> Strip(ReferenceContent(found, rstatus)),
                            Learning_Mode |-> ModeAndModel(parts)[1],
                            Model |-> ModeAndModel(parts)[2]] >>,
              log |-> <<>>]

\* The body of the walk for a file that matched generated_pattern: the pairs
\* it appends and the warnings it prints.
VisitOutcome(parts, mapping, gstatus, rstatus) ==
    LET identifier == GeneratedIdentifier(parts[Len(parts)])
        found == GetReference(mapping, identifier)
        structure == IF Len(parts) < 3
                     THEN << [kind |-> "structure", subject |-> parts] >>
                     ELSE <<>>
        generated_summary == Strip(GeneratedContent(parts, gstatus))
        reference_summary == Strip(ReferenceContent(found, rstatus))
    IN  IF found = NoneStr \/ rstatus = "missing"
        THEN [pairs |-> <<>>,
              log |-> structure \o << [kind |-> "not_found", subject |-> parts] >>]
        ELSE IF gstatus = "unreadable" \/ rstatus = "unreadable"
        THEN [pairs |-> <<>>,
              log |-> structure \o << [kind |-> "read_error", subject |-> parts] >>]
        ELSE IF generated_summary = <<>>
        THEN [pairs |-> <<>>,
              log |-> structure \o << [kind |-> "generated_empty", subject |-> parts] >>]
        ELSE IF reference_summary = <<>>
        THEN [pairs |-> <<>>,
              log |-> structure \o << [kind |-> "reference_empty", subject |-> parts] >>]
        ELSE [pairs |-> << [Generated_Summary |-> generated_summary,
                            Reference_Summary |-> reference_summary,
                            Learning_Mode |-> ModeAndModel(parts)[1],
                            Model |-> ModeAndModel(parts)[2]] >>,
              log |-> structure]

\* read_summaries(reference_dir, generated_base_dir) is called.
InitEval ==
    /\ CnIdle
    /\ CsIdle
    /\ CeIdle
    /\ ScIdle
    /\ RnIdle
    /\ WkIdle
    /\ ExIdle
    /\ OrgIdle
    /\ ClsIdle
    /\ AmIdle
    /\ ChIdle
    /\ ev_pc = "scan"
    /\ ref_listing \in {q \in SeqsUpTo(RefNames, MaxRefs) : Distinct(q)}
    /\ ref_i = 0
    /\ reference_mapping = <<>>
    /\ gen_listing \in {q \in SeqsUpTo(GenPaths, MaxGens) : WalkOrder(q)}
    /\ gen_i = 0
    /\ ref_status = <<>>
    /\ gen_status = <<>>
    /\ ref_path = NoneStr
    /\ summary_pairs = <<>>
    /\ ev_log = <<>>

\* One iteration of the loop over os.listdir(reference_dir).
ScanReference ==
    /\ ev_pc = "scan"
    /\ ref_i < Len(ref_listing)
    /\ LET ref_file == ref_listing[ref_i + 1]
           identifier == ReferenceIdentifier(ref_file)
       IN  IF identifier # NoneStr
           THEN /\ reference_mapping' = SetReference(reference_mapping, identifier, ref_file)
                /\ ev_log' =
                     IF identifier \in DOMAIN reference_mapping
                     THEN Append(ev_log, [kind |-> "duplicate", subject |-> ref_file])
                     ELSE ev_log
           ELSE /\ reference_mapping' = reference_mapping
                /\ ev_log' = Append(ev_log, [kind |-> "no_pattern", subject |-> ref_file])
    /\ ref_i' = ref_i + 1
    /\ UNCHANGED << ev_pc, ref_listing, gen_listing, gen_i, ref_status, gen_status,
                    ref_path, summary_pairs, notEvVars >>

\* The scan is over: summary_pairs = [] and the walk begins.
BeginWalk ==
    /\ ev_pc = "scan"
    /\ ref_i = Len(ref_listing)
    /\ ev_pc' = "walk"
    /\ UNCHANGED << ref_listing, ref_i, reference_mapping, gen_listing, gen_i,
                    ref_status, gen_status, ref_path, summary_pairs, ev_log,
                    notEvVars >>

\* A file of the walk that generated_pattern does not match: nothing happens.
VisitOther ==
    /\ ev_pc = "walk"
    /\ gen_i < Len(gen_listing)
    /\ GeneratedIdentifier(gen_listing[gen_i + 1][Len(gen_listing[gen_i + 1])]) = NoneStr
    /\ gen_i' = gen_i + 1
    /\ gen_status' = Append(gen_status, "unopened")
    /\ UNCHANGED << ev_pc, ref_listing, ref_i, reference_mapping, gen_listing,
                    ref_status, ref_path, summary_pairs, ev_log, notEvVars >>

\* A file of the walk named <six digits>.txt.  What the two files hold is
\* learnt when they are opened; a reference file holds the same at every visit.
VisitGenerated ==
    /\ ev_pc = "walk"
    /\ gen_i < Len(gen_listing)
    /\ LET parts == gen_listing[gen_i + 1]
           identifier == GeneratedIdentifier(parts[Len(parts)])
           found == GetReference(reference_mapping, identifier)
       IN  /\ identifier # NoneStr
           /\ ref_path' = found
           /\ \E gstatus \in GenStatuses :
              \E rstatus \in (IF found = NoneStr THEN {"missing"}
                              ELSE IF found \in DOMAIN ref_status
                                   THEN {ref_status[found]}
                                   ELSE RefStatuses) :
                 LET outcome == VisitOutcome(parts, reference_mapping, gstatus, rstatus)
                     opened == found # NoneStr /\ rstatus # "missing"
                 IN  /\ gen_status' =
                           Append(gen_status, IF opened THEN gstatus ELSE "unopened")
                     /\ (~opened => gstatus = "text")
                     /\ ref_status' =
                           IF found = NoneStr THEN ref_status
                           ELSE Put(ref_status, found, rstatus)
                     /\ summary_pairs' = summary_pairs \o outcome.pairs
                     /\ ev_log' = ev_log \o outcome.log
    /\ gen_i' = gen_i + 1
    /\ UNCHANGED << ev_pc, ref_listing, ref_i, reference_mapping, gen_listing,
                    notEvVars >>

\* return summary_pairs
EvalReturn ==
    /\ ev_pc = "walk"
    /\ gen_i = Len(gen_listing)
    /\ ev_pc' = "returned"
    /\ UNCHANGED << ref_listing, ref_i, reference_mapping, gen_listing, gen_i,
                    ref_status, gen_status, ref_path, summary_pairs, ev_log,
                    notEvVars >>

NextEval ==
    \/ ScanReference
    \/ BeginWalk
    \/ VisitOther
    \/ VisitGenerated
    \/ EvalReturn

SpecEval == InitEval /\ [][NextEval]_vars


\* ------------------------------------------------ claims: read_summaries
\* The positions of the listing whose file carries the identifier.
PositionsWithId(listing, identifier) ==
    {k \in DOMAIN listing : ReferenceIdentifier(listing[k]) = identifier}

Max(S) == CHOOSE x \in S : \A y \in S : y <= x

\* The last file of the listing carrying the identifier.
LastWithId(listing, identifier) == listing[Max(PositionsWithId(listing, identifier))]

ListedIds(listing) ==
    {ReferenceIdentifier(listing[k]) : k \in DOMAIN listing} \ {NoneStr}

CountLog(kind) == Cardinality({k \in DOMAIN ev_log : ev_log[k].kind = kind})

\* The file name of the generated file the next visit is about.
NextGenName == gen_listing[gen_i + 1][Len(gen_listing[gen_i + 1])]

\* C5: after the scan the mapping holds, for every identifier, the last
\* reference file in scan order carrying it, each overwrite having printed a
\* warning; the reference looked up for a generated file is that last file, and
\* a pair appended for it holds that file's text.
C5_LastReferenceWins ==
    /\ [](ev_pc \in {"walk", "returned"} =>
            /\ DOMAIN reference_mapping = ListedIds(ref_listing)
            /\ \A id \in DOMAIN reference_mapping :
                  reference_mapping[id] = LastWithId(ref_listing, id)
            /\ CountLog("duplicate") + Cardinality(ListedIds(ref_listing))
                  = Cardinality({k \in DOMAIN ref_listing :
                                    ReferenceIdentifier(ref_listing[k]) # NoneStr}))
    /\ [][gen_i' = gen_i + 1 /\ GeneratedIdentifier(NextGenName) \in ListedIds(ref_listing) =>
            /\ ref_path' = LastWithId(ref_listing, GeneratedIdentifier(NextGenName))
            /\ Len(summary_pairs') > Len(summary_pairs) =>
                  summary_pairs'[Len(summary_pairs')].Reference_Summary =
                     Strip(ReferenceContent(
                        LastWithId(ref_listing, GeneratedIdentifier(NextGenName)), "text"))]_vars

\* Two references carry one identifier and a generated file was paired.
C5_Witness ==
    /\ ev_pc = "returned"
    /\ \E id \in ListedIds(ref_listing) : Cardinality(PositionsWithId(ref_listing, id)) = 2
    /\ CountLog("duplicate") = 1
    /\ summary_pairs # <<>>

\* The generated files are all named <six digits>.txt and hold readable text.
GeneratedAllTextual ==
    \A k \in DOMAIN gen_listing :
        /\ GeneratedIdentifier(gen_listing[k][Len(gen_listing[k])]) # NoneStr
        /\ k \in DOMAIN gen_status => gen_status[k] \in {"text", "unopened"}

UniqueReferenceIds ==
    \A id \in ListedIds(ref_listing) : Cardinality(PositionsWithId(ref_listing, id)) = 1

GeneratedWithReference ==
    {k \in DOMAIN gen_listing :
        GeneratedIdentifier(gen_listing[k][Len(gen_listing[k])]) \in DOMAIN reference_mapping}

\* One pair per generated file with a reference, one warning per file without.
PairsAndUnmatched ==
    /\ Len(summary_pairs) = Cardinality(GeneratedWithReference)
    /\ CountLog("not_found") = Len(gen_listing) - Cardinality(GeneratedWithReference)
    /\ Len(summary_pairs) + CountLog("not_found") = Len(gen_listing)

\* C7 as stated: with unique reference ids and generated files <six digits>.txt
\* holding readable text, each generated file with a reference gives one pair
\* and each one without is reported unmatched.
C7_PairsPlusUnmatched ==
    ev_pc = "returned" /\ UniqueReferenceIds /\ GeneratedAllTextual => PairsAndUnmatched

\* C7 amended: the same, when the reference files looked up also exist and hold
\* readable text.
C7_PairsPlusUnmatchedTextual ==
    /\ ev_pc = "returned"
    /\ UniqueReferenceIds
    /\ GeneratedAllTextual
    /\ \A r \in DOMAIN ref_status : ref_status[r] = "text"
    => PairsAndUnmatched

\* References 100001 and 100002, generated 100001 and 999999: one pair, one unmatched.
C7_Witness ==
    /\ ev_pc = "returned"
    /\ UniqueReferenceIds
    /\ GeneratedAllTextual
    /\ Cardinality(ListedIds(ref_listing)) = 2
    /\ \A r \in DOMAIN ref_status : ref_status[r] = "text"
    /\ Len(summary_pairs) = 1
    /\ CountLog("not_found") = 1


\* ------------------------------------------------------ AutomaticMetric.py
parent_directories == <<"oneshot", "zeroshot", "fewshot">>
subdirectories == <<"llama", "qwen", "chatgpt">>

\* The columns of a score_data dict, in insertion order.
MetricNames == <<"BLEU", "METEOR", "ROUGE-W", "BERTScore-P", "BERTScore-R", "BERT-F1">>

MetricSet == {MetricNames[k] : k \in DOMAIN MetricNames}

ScoreVector(bleu, meteor, rouge_w, bert_p, bert_r, bert_f1) ==
    [x \in MetricSet |->
        CASE x = "BLEU" -> bleu
          [] x = "METEOR" -> meteor
          [] x = "ROUGE-W" -> rouge_w
          [] x = "BERTScore-P" -> bert_p
          [] x = "BERTScore-R" -> bert_r
          [] x = "BERT-F1" -> bert_f1]

\* What the scorers may return for a pair, in tenths.
ScoreVectors ==
    { ScoreVector(5, 4, 0, 0, 0, 0),
      ScoreVector(4, 5, 0, 0, 0, 0),
      ScoreVector(1, 0, 0, 1, 0, 1) }

\* An index of a slice, as Python clamps it.
SliceIndex(s, x) ==
    IF x < 0 THEN (IF Len(s) + x < 0 THEN 0 ELSE Len(s) + x)
    ELSE (IF x > Len(s) THEN Len(s) ELSE x)

\* s[a:b]
Slice(s, a, b) == SubSeq(s, SliceIndex(s, a) + 1, SliceIndex(s, b))

\* The reference directory's possible entries.
AmRefNames ==
    { <<"1","0","0","0","0","1",".","t","x","t">>,
      <<"r","e","f","_","1","0","0","0","0","1",".","t","x","t">>,
      <<"1","0","0","0","0","1",".","c","s","v">>,
      <<"n","o","t","e","s",".","t","x","t">> }

\* The files the nested loops may find: <<parent_dir, sub_dir, filename>>.
AmTargets ==
    { <<"oneshot", "llama", <<"1","0","0","0","0","1",".","t","x","t">> >>,
      <<"oneshot", "llama", <<"r","e","a","d","m","e",".","m","d">> >>,
      <<"zeroshot", "qwen", <<"1","0","0","0","0","1",".","t","x","t">> >>,
      <<"fewshot", "chatgpt", <<"n","o","t","e","s",".","t","x","t">> >> }

PositionIn(q, x) == CHOOSE k \in DOMAIN q : q[k] = x

\* The nested loops go through parent_directories, then subdirectories, in order.
LoopOrder(q) ==
    /\ Distinct(q)
    /\ \A i, j \in DOMAIN q :
          i < j =>
             \/ PositionIn(parent_directories, q[i][1]) < PositionIn(parent_directories, q[j][1])
             \/ /\ q[i][1] = q[j][1]
                /\ PositionIn(subdirectories, q[i][2]) <= PositionIn(subdirectories, q[j][2])

\* The version that returns the first match alone.
find_first_reference_file(listing, target_filename) ==
    LET target_prefix == Slice(target_filename, -10, -4)
        Matches(ref_file) ==
            EndsWith(ref_file, DotTxt) /\ Slice(ref_file, -10, -4) = target_prefix
        found == SelectSeq(listing, Matches)
    IN  IF found = <<>> THEN <<>> ELSE << found[1] >>

\* find_reference_file(target_filename)
find_reference_file(listing, target_filename) ==
    LET target_prefix == Slice(target_filename, -10, -4)
        Matches(ref_file) ==
            EndsWith(ref_file, DotTxt) /\ Slice(ref_file, -10, -4) = target_prefix
    IN  SelectSeq(listing, Matches)

RECURSIVE SumFrom(_, _)
SumFrom(score_data, k) ==
    IF k > Len(MetricNames) THEN 0
    ELSE score_data[MetricNames[k]] + SumFrom(score_data, k + 1)

\* sum(score_data.values())
SumScores(score_data) == SumFrom(score_data, 1)

\* The dict with the directory names the other way round.
ResultRowSwapped(parent_dir, sub_dir, filename, ref_file, score_data) ==
    [learning_model |-> parent_dir,
     model |-> sub_dir,
     file_name |-> filename,
     file_path |-> <<parent_dir, sub_dir, filename>>,
     reference_file |-> ref_file,
     scores |-> score_data,
     sum |-> SumScores(score_data)]

\* The dict appended to results.
ResultRow(parent_dir, sub_dir, filename, ref_file, score_data) ==
    [learning_model |-> sub_dir,
     model |-> parent_dir,
     file_name |-> filename,
     file_path |-> <<parent_dir, sub_dir, filename>>,
     reference_file |-> ref_file,
     scores |-> score_data,
     sum |-> SumScores(score_data)]

\* q with x put before the first element whose sum is not larger than x's.
InsertBeforeEqual(rows, q, x) ==
    LET before == {k \in DOMAIN q : rows[q[k]]["sum"] > rows[x]["sum"]}
        n == Cardinality(before)
    IN  SubSeq(q, 1, n) \o <<x>> \o SubSeq(q, n + 1, Len(q))

\* q with x put after every element whose sum is at least x's.
InsertAfterEqual(rows, q, x) ==
    LET before == {k \in DOMAIN q : rows[q[k]]["sum"] >= rows[x]["sum"]}
        n == Cardinality(before)
    IN  SubSeq(q, 1, n) \o <<x>> \o SubSeq(q, n + 1, Len(q))

RECURSIVE SortedFrom(_, _, _)
SortedFrom(rows, q, k) ==
    IF k > Len(rows) THEN q
    ELSE SortedFrom(rows, InsertAfterEqual(rows, q, k), k + 1)

RECURSIVE ReverseSortedFrom(_, _, _)
ReverseSortedFrom(rows, q, k) ==
    IF k > Len(rows) THEN q
    ELSE ReverseSortedFrom(rows, InsertBeforeEqual(rows, q, k), k + 1)

\* An ascending sort turned round: equal sums come out in reverse order.
SortedAscendingReversed(rows) == ReverseSortedFrom(rows, <<>>, 1)

\* sorted(results, key=lambda x: x['sum'], reverse=True), as positions of
\* results: a stable sort, equal sums keeping their order.
SortedBySum(rows) == SortedFrom(rows, <<>>, 1)

\* The ranking done on the list itself: sort ascending, reverse, number.
RankInPlace(rows) ==
    LET order == SortedAscendingReversed(rows)
    IN  [k \in DOMAIN rows |-> Put(rows[order[k]], "rank", k)]

\* for idx, result in enumerate(sorted(...), start=1): result['rank'] = idx
RankResults(rows) ==
    LET order == SortedBySum(rows)
    IN  [i \in DOMAIN rows |-> Put(rows[i], "rank", PositionIn(order, i))]

fieldnames ==
    <<"learning_model", "model", "file_name", "file_path", "reference_file",
      "BLEU", "METEOR", "ROUGE-W", "BERTScore-P", "BERTScore-R", "BERT-F1",
      "sum", "rank">>

\* The dict handed to writer.writerow for a result.
CsvRow(result) ==
    [f \in {fieldnames[k] : k \in DOMAIN fieldnames} |->
        IF f \in MetricSet THEN result["scores"][f] ELSE result[f]]

\* The script starts: results = [].
InitMetric ==
    /\ CnIdle
    /\ CsIdle
    /\ CeIdle
    /\ ScIdle
    /\ RnIdle
    /\ WkIdle
    /\ ExIdle
    /\ OrgIdle
    /\ ClsIdle
    /\ EvIdle
    /\ ChIdle
    /\ am_pc = "loop"
    /\ am_refs \in {q \in SeqsUpTo(AmRefNames, MaxRefs) : Distinct(q)}
    /\ am_files \in {q \in SeqsUpTo(AmTargets, MaxGens) : LoopOrder(q)}
    /\ am_i = 0
    /\ am_scored = <<>>
    /\ results = <<>>
    /\ rank_runs = 0
    /\ csv_rows = <<>>

\* A file that is not *.txt, or has no reference: nothing is appended.
TargetSkipped ==
    /\ am_pc = "loop"
    /\ am_i < Len(am_files)
    /\ LET filename == am_files[am_i + 1][3]
       IN  \/ ~EndsWith(filename, DotTxt)
           \/ find_reference_file(am_refs, filename) = <<>>
    /\ am_i' = am_i + 1
    /\ UNCHANGED << am_pc, am_refs, am_files, am_scored, results, rank_runs,
                    csv_rows, notAmVars >>

\* A *.txt file with references: compute_scores, then one dict per reference.
TargetScored ==
    /\ am_pc = "loop"
    /\ am_i < Len(am_files)
    /\ LET parent_dir == am_files[am_i + 1][1]
           sub_dir == am_files[am_i + 1][2]
           filename == am_files[am_i + 1][3]
           reference_files == find_reference_file(am_refs, filename)
       IN  /\ EndsWith(filename, DotTxt)
           /\ reference_files # <<>>
           /\ \E scores \in [DOMAIN reference_files -> ScoreVectors] :
                 /\ am_scored' = am_scored \o
                       [k \in DOMAIN reference_files |->
                           [target |-> am_files[am_i + 1],
                            reference |-> reference_files[k],
                            score_data |-> scores[k]]]
                 /\ results' = results \o
                       [k \in DOMAIN reference_files |->
                           ResultRow(parent_dir, sub_dir, filename,
                                     reference_files[k], scores[k])]
    /\ am_i' = am_i + 1
    /\ UNCHANGED << am_pc, am_refs, am_files, rank_runs, csv_rows, notAmVars >>

\* Reading a file or a scorer raises inside compute_scores: nothing catches it.
TargetRaises ==
    /\ am_pc = "loop"
    /\ am_i < Len(am_files)
    /\ EndsWith(am_files[am_i + 1][3], DotTxt)
    /\ find_reference_file(am_refs, am_files[am_i + 1][3]) # <<>>
    /\ am_pc' = "crashed"
    /\ UNCHANGED << am_refs, am_files, am_i, am_scored, results, rank_runs,
                    csv_rows, notAmVars >>

LoopDone ==
    /\ am_pc = "loop"
    /\ am_i = Len(am_files)
    /\ am_pc' = "rank"
    /\ UNCHANGED << am_refs, am_files, am_i, am_scored, results, rank_runs,
                    csv_rows, notAmVars >>

\* The ranking step.
Rank ==
    /\ am_pc = "rank"
    /\ results' = RankResults(results)
    /\ rank_runs' = 1
    /\ am_pc' = "write"
    /\ UNCHANGED << am_refs, am_files, am_i, am_scored, csv_rows, notAmVars >>

\* The ranking step run a second time over the records it has ranked.
RankAgain ==
    /\ am_pc = "write"
    /\ rank_runs = 1
    /\ results' = RankResults(results)
    /\ rank_runs' = 2
    /\ UNCHANGED << am_pc, am_refs, am_files, am_i, am_scored, csv_rows, notAmVars >>

\* The header and one row per result are written.
WriteCsv ==
    /\ am_pc = "write"
    /\ csv_rows' = [k \in DOMAIN results |-> CsvRow(results[k])]
    /\ am_pc' = "done"
    /\ UNCHANGED << am_refs, am_files, am_i, am_scored, results, rank_runs,
                    notAmVars >>

NextMetric ==
    \/ TargetSkipped
    \/ TargetScored
    \/ TargetRaises
    \/ LoopDone
    \/ Rank
    \/ RankAgain
    \/ WriteCsv

SpecMetric == InitMetric /\ [][NextMetric]_vars


\* ------------------------------------- the two pair matchers side by side
InitPairs == InitEval \/ InitMetric

NextPairs == NextEval \/ NextMetric

SpecPairs == InitPairs /\ [][NextPairs]_vars

\* ------------------------------------------------ claims: AutomaticMetric
\* The reference files of the listing that go with the file name: *.txt with
\* the same six characters before the extension.
ReferencesOf(listing, filename) ==
    {k \in DOMAIN listing :
        /\ EndsWith(listing[k], DotTxt)
        /\ Slice(listing[k], -10, -4) = Slice(filename, -10, -4)}

\* C6 as stated: every generated file gives at most one pair in read_summaries
\* and at most one result row in AutomaticMetric.py.
C6_AtMostOnePerGenerated ==
    [][/\ gen_i' = gen_i + 1 => Len(summary_pairs') <= Len(summary_pairs) + 1
       /\ am_i' = am_i + 1 => Len(results') <= Len(results) + 1]_vars

\* C6 amended: every generated file gives at most one pair in read_summaries;
\* in AutomaticMetric.py a *.txt file gives one result row for each reference
\* file that goes with it, and any other file none.
C6_OnePerReference ==
    [][/\ gen_i' = gen_i + 1 => Len(summary_pairs') <= Len(summary_pairs) + 1
       /\ am_i' = am_i + 1 =>
             Len(results') - Len(results) =
                IF EndsWith(am_files[am_i + 1][3], DotTxt)
                THEN Cardinality(ReferencesOf(am_refs, am_files[am_i + 1][3]))
                ELSE 0]_vars

\* AutomaticMetric.py has appended two rows for its first file.
C6_Witness ==
    /\ am_i = 1
    /\ Len(results) = 2
    /\ Cardinality(ReferencesOf(am_refs, am_files[1][3])) = 2

Ranked == \A i \in DOMAIN results : "rank" \in DOMAIN results[i]

\* C8: after the ranking step every record has a rank, the ranks are 1..n each
\* used once, a higher sum has a smaller rank, and equal sums are ranked in the
\* order the records were appended.
C8_RankBySumStable ==
    rank_runs >= 1 =>
        /\ Ranked
        /\ {results[i]["rank"] : i \in DOMAIN results} = 1..Len(results)
        /\ \A i, j \in DOMAIN results :
              /\ i # j => results[i]["rank"] # results[j]["rank"]
              /\ results[i]["sum"] > results[j]["sum"] =>
                    results[i]["rank"] < results[j]["rank"]
              /\ results[i]["sum"] = results[j]["sum"] /\ i < j =>
                    results[i]["rank"] < results[j]["rank"]

\* A low sum appended before two equal higher sums that came from different
\* scorer calls: the two share the top ranks in append order.
C8_Witness ==
    /\ rank_runs = 1
    /\ \E i, j, k \in DOMAIN results :
          /\ i < j
          /\ j < k
          /\ results[i]["sum"] < results[j]["sum"]
          /\ results[j]["sum"] = results[k]["sum"]
          /\ results[j]["scores"] # results[k]["scores"]
          /\ results[j]["rank"] < results[k]["rank"]
          /\ results[k]["rank"] < results[i]["rank"]

\* C10: when the CSV is written it holds, for every scorer call (a *.txt file
\* of <shot>/<model>/ and a reference that goes with it), in call order, one row
\* with learning_model the model directory, model the shot directory, the
\* scorer's values in the metric columns and their total in sum; and every
\* such file with a reference has a row.
C10_RowContent ==
    am_pc = "done" =>
        /\ Len(csv_rows) = Len(am_scored)
        /\ \A k \in DOMAIN am_scored :
              /\ csv_rows[k]["learning_model"] = am_scored[k].target[2]
              /\ csv_rows[k]["model"] = am_scored[k].target[1]
              /\ csv_rows[k]["file_name"] = am_scored[k].target[3]
              /\ csv_rows[k]["file_path"] = am_scored[k].target
              /\ csv_rows[k]["reference_file"] = am_scored[k].reference
              /\ \A x \in MetricSet : csv_rows[k][x] = am_scored[k].score_data[x]
              /\ csv_rows[k]["sum"] =
                    csv_rows[k]["BLEU"] + csv_rows[k]["METEOR"] + csv_rows[k]["ROUGE-W"]
                    + csv_rows[k]["BERTScore-P"] + csv_rows[k]["BERTScore-R"]
                    + csv_rows[k]["BERT-F1"]
        /\ \A i \in DOMAIN am_files :
              /\ EndsWith(am_files[i][3], DotTxt)
              /\ ReferencesOf(am_refs, am_files[i][3]) # {}
              => \A r \in ReferencesOf(am_refs, am_files[i][3]) :
                    Cardinality({k \in DOMAIN csv_rows :
                                    /\ csv_rows[k]["file_path"] = am_files[i]
                                    /\ csv_rows[k]["reference_file"] = am_refs[r]}) = 1

\* oneshot/llama/100001.txt scored BLEU 0.5 and METEOR 0.4: the row's sum is 0.9.
C10_Witness ==
    /\ am_pc = "done"
    /\ \E k \in DOMAIN csv_rows :
          /\ csv_rows[k]["learning_model"] = "llama"
          /\ csv_rows[k]["model"] = "oneshot"
          /\ csv_rows[k]["BLEU"] = 5
          /\ csv_rows[k]["METEOR"] = 4
          /\ csv_rows[k]["sum"] = 9


\* ------------------------------------------------ countHallucination.py
MaxDocs == 3

hallucination_types == <<"UCE", "OGE", "UGE", "NNE", "DTE", "MGE">>

TagSet == {hallucination_types[k] : k \in DOMAIN hallucination_types}

\* A float cell of the DataFrame: <<n>> is the number n, <<>> is NaN.  A
\* quotient is kept exact as <<numerator, denominator>> in lowest terms.
NaN == <<>>

Num(n) == <<n>>

RECURSIVE Gcd(_, _)
Gcd(a, b) == IF b = 0 THEN a ELSE Gcd(b, a % b)

\* a / b on floats: 0 / 0 is NaN.
Frac(a, b) ==
    IF b = 0 THEN (IF a = 0 THEN NaN ELSE <<a, 0>>)
    ELSE LET g == Gcd(a, b) IN <<a \div g, b \div g>>

\* What re.findall finds in a readable file, per tag.
TagCounts(uce, oge, uge) ==
    [t \in TagSet |->
        IF t = "UCE" THEN uce ELSE IF t = "OGE" THEN oge ELSE IF t = "UGE" THEN uge ELSE 0]

\* A file: whether open and read succeed, and what its text counts to.
FileContents ==
    [readable : {TRUE},
     counts : {TagCounts(0, 0, 0), TagCounts(1, 0, 0), TagCounts(2, 1, 0), TagCounts(0, 1, 3)}]
        \cup [readable : {FALSE}, counts : {TagCounts(0, 0, 0)}]

\* analyze_file: the counts, or an empty defaultdict when reading raised.
analyze_file(content) == IF content.readable THEN content.counts ELSE [t \in {} |-> 0]

\* <learning_model>/<model>/<stem>.txt under input_dir.
HallFiles ==
    { <<"oneshot", "llama", "201301">>, <<"oneshot", "llama", "201302">>,
      <<"oneshot", "qwen", "201301">>, <<"zeroshot", "llama", "201301">> }

\* iterdir and glob give the entries in any order; the loops nest.
NestedOrder(q) ==
    /\ Distinct(q)
    /\ \A i, j, k \in DOMAIN q :
          i < j /\ j < k =>
             /\ q[i][1] = q[k][1] => q[j][1] = q[i][1]
             /\ (q[i][1] = q[k][1] /\ q[i][2] = q[k][2]) => q[j][2] = q[i][2]

HallListings == {q \in SeqsUpTo(HallFiles, MaxDocs) : NestedOrder(q)}

\* The dict appended to results for a file.
ResultDict(file, counts) ==
    [learning_model |-> file[1],
     model |-> file[2],
     file_name |-> file[3],
     file_path |-> file,
     counts |-> counts]

\* pd.DataFrame(results) has a column for a tag when some dict has the key.
HasTagColumns(rows) == \E k \in DOMAIN rows : DOMAIN rows[k].counts = TagSet

RECURSIVE SumCells(_, _)
SumCells(cells, k) ==
    IF k > Len(hallucination_types) THEN 0
    ELSE (IF cells[hallucination_types[k]] = NaN THEN 0 ELSE cells[hallucination_types[k]][1])
         + SumCells(cells, k + 1)

\* pd.DataFrame(results) with the total_hallucinations column: a missing key
\* is NaN, and sum(axis=1) skips NaN.
FrameRow(result) ==
    LET cells == [t \in TagSet |->
                     IF t \in DOMAIN result.counts THEN Num(result.counts[t]) ELSE NaN]
    IN  [learning_model |-> result.learning_model,
         model |-> result.model,
         file_name |-> result.file_name,
         file_path |-> result.file_path,
         cells |-> cells,
         total_hallucinations |-> SumCells(cells, 1)]

\* The order of str on the names that occur.
StrOrder == <<"201301", "201302", "llama", "oneshot", "qwen", "zeroshot">>

StrLess(a, b) == PositionIn(StrOrder, a) < PositionIn(StrOrder, b)

KeyLess(a, b) ==
    \/ StrLess(a[1], b[1])
    \/ a[1] = b[1] /\ StrLess(a[2], b[2])
    \/ a[1] = b[1] /\ a[2] = b[2] /\ Len(a) = 3 /\ StrLess(a[3], b[3])

SortKey(row) == <<row.learning_model, row.model, row.file_name>>

InsertByKey(q, row) ==
    LET n == Cardinality({k \in DOMAIN q : ~KeyLess(SortKey(row), SortKey(q[k]))})
    IN  SubSeq(q, 1, n) \o <<row>> \o SubSeq(q, n + 1, Len(q))

RECURSIVE SortValuesFrom(_, _, _)
SortValuesFrom(rows, q, k) ==
    IF k > Len(rows) THEN q
    ELSE SortValuesFrom(rows, InsertByKey(q, rows[k]), k + 1)

\* df.sort_values(['learning_model', 'model', 'file_name'])
sort_values(rows) == SortValuesFrom(rows, <<>>, 1)

\* The frame create_summary is called with.
DataFrame(rows) == sort_values([k \in DOMAIN rows |-> FrameRow(rows[k])])

GroupKey(row) == <<row.learning_model, row.model>>

InsertKey(q, key) ==
    IF \E k \in DOMAIN q : q[k] = key THEN q
    ELSE LET n == Cardinality({k \in DOMAIN q : KeyLess(q[k], key)})
         IN  SubSeq(q, 1, n) \o <<key>> \o SubSeq(q, n + 1, Len(q))

RECURSIVE GroupKeysFrom(_, _, _)
GroupKeysFrom(frame, q, k) ==
    IF k > Len(frame) THEN q
    ELSE GroupKeysFrom(frame, InsertKey(q, GroupKey(frame[k])), k + 1)

\* groupby(['learning_model', 'model']): the groups, in key order.
GroupKeys(frame) == GroupKeysFrom(frame, <<>>, 1)

RECURSIVE GroupRowsFrom(_, _, _)
GroupRowsFrom(frame, key, k) ==
    IF k > Len(frame) THEN <<>>
    ELSE (IF GroupKey(frame[k]) = key THEN <<frame[k]>> ELSE <<>>)
         \o GroupRowsFrom(frame, key, k + 1)

\* A grouping that looks at learning_model alone.
GroupRowsByLearningModel(frame, key) ==
    LET SameLearningModel(row) == row.learning_model = key[1]
    IN  SelectSeq(frame, SameLearningModel)

\* The rows of the frame that are in the group of a key, in frame order.
GroupRows(frame, key) == GroupRowsFrom(frame, key, 1)

SummaryColumns == TagSet \cup {"total_hallucinations"}

\* The values of a column of the group that are not NaN.
RECURSIVE PresentFrom(_, _, _)
PresentFrom(rows, column, k) ==
    IF k > Len(rows) THEN <<>>
    ELSE (IF column = "total_hallucinations" THEN <<rows[k].total_hallucinations>>
          ELSE rows[k].cells[column])
         \o PresentFrom(rows, column, k + 1)

RECURSIVE SumOf(_, _)
SumOf(xs, k) == IF k > Len(xs) THEN 0 ELSE xs[k] + SumOf(xs, k + 1)

RECURSIVE SumSquaresOf(_, _)
SumSquaresOf(xs, k) == IF k > Len(xs) THEN 0 ELSE xs[k] * xs[k] + SumSquaresOf(xs, k + 1)

\* ['sum', 'mean', 'std'] of a column within a group.  NaN is skipped; the sum
\* of nothing is 0, the mean of nothing NaN, the sample deviation of fewer than
\* two values NaN.  std_squared is the square of the std column.
Aggregate(rows, column) ==
    LET xs == PresentFrom(rows, column, 1)
        n == Len(xs)
        total == SumOf(xs, 1)
    IN  [sum |-> total,
         mean |-> IF n = 0 THEN NaN ELSE Frac(total, n),
         std_squared |->
            IF n < 2 THEN NaN ELSE Frac(n * SumSquaresOf(xs, 1) - total * total, n * (n - 1))]

\* A summary row whose percentages are shares of the tag's total over the
\* whole frame.
SummaryRowOfGrandTotal(frame, key) ==
    LET rows == GroupRows(frame, key)
        agg == [c \in SummaryColumns |-> Aggregate(rows, c)]
    IN  [learning_model |-> key[1],
         model |-> key[2],
         agg |-> agg,
         total_files |-> Len(rows),
         percentage |->
            [t \in TagSet |-> Frac(100 * agg[t].sum, Aggregate(frame, t).sum)]]

\* One row of summary_<output file>.
SummaryRow(frame, key) ==
    LET rows == GroupRows(frame, key)
        agg == [c \in SummaryColumns |-> Aggregate(rows, c)]
    IN  [learning_model |-> key[1],
         model |-> key[2],
         agg |-> agg,
         total_files |-> Len(rows),
         percentage |->
            [t \in TagSet |-> Frac(100 * agg[t].sum, agg["total_hallucinations"].sum)]]

\* group_summary as create_summary saves it.
GroupSummary(frame) ==
    LET keys == GroupKeys(frame)
    IN  [k \in DOMAIN keys |-> SummaryRow(frame, keys[k])]

\* HallucinationAnalyzer(...) constructed, analyze_directories at its loops.
InitHall ==
    /\ CnIdle
    /\ CsIdle
    /\ CeIdle
    /\ ScIdle
    /\ RnIdle
    /\ WkIdle
    /\ ExIdle
    /\ OrgIdle
    /\ ClsIdle
    /\ EvIdle
    /\ AmIdle
    /\ ch_pc = "loop"
    /\ ch_files \in HallListings
    /\ ch_i = 0
    /\ ch_results = <<>>
    /\ df = <<>>
    /\ group_summary = <<>>
    /\ summary_runs = 0
    /\ ch_result = Unset

\* One pass of the innermost loop.
AnalyzeFile ==
    /\ ch_pc = "loop"
    /\ ch_i < Len(ch_files)
    /\ ch_i' = ch_i + 1
    /\ \E content \in FileContents :
          ch_results' = Append(ch_results, ResultDict(ch_files[ch_i + 1], analyze_file(content)))
    /\ UNCHANGED << ch_pc, ch_files, df, group_summary, summary_runs, ch_result, notChVars >>

\* if results: ... else: return False
NoResults ==
    /\ ch_pc = "loop"
    /\ ch_i = Len(ch_files)
    /\ ch_results = <<>>
    /\ ch_pc' = "returned"
    /\ ch_result' = "False"
    /\ UNCHANGED << ch_files, ch_i, ch_results, df, group_summary, summary_runs, notChVars >>

\* The frame is built, totalled, sorted and saved.
BuildFrame ==
    /\ ch_pc = "loop"
    /\ ch_i = Len(ch_files)
    /\ ch_results # <<>>
    /\ HasTagColumns(ch_results)
    /\ df' = DataFrame(ch_results)
    /\ ch_pc' = "summary"
    /\ UNCHANGED << ch_files, ch_i, ch_results, group_summary, summary_runs, ch_result,
                    notChVars >>

\* No file could be read: the frame has no tag column and selecting them raises.
FrameRaises ==
    /\ ch_pc = "loop"
    /\ ch_i = Len(ch_files)
    /\ ch_results # <<>>
    /\ ~HasTagColumns(ch_results)
    /\ ch_pc' = "raised"
    /\ UNCHANGED << ch_files, ch_i, ch_results, df, group_summary, summary_runs, ch_result,
                    notChVars >>

\* create_summary(df): the summary is saved; writing the statistics workbook
\* then succeeds or raises, by the output file's suffix and the installed engine.
CreateSummary ==
    /\ ch_pc = "summary"
    /\ group_summary' = GroupSummary(df)
    /\ summary_runs' = 1
    /\ \E workbook_written \in BOOLEAN :
          IF workbook_written
          THEN ch_pc' = "returned" /\ ch_result' = "True"
          ELSE ch_pc' = "raised" /\ ch_result' = ch_result
    /\ UNCHANGED << ch_files, ch_i, ch_results, df, notChVars >>

\* The grouping of create_summary run a second time over the same frame.
SummaryAgain ==
    /\ ch_pc \in {"returned", "raised"}
    /\ summary_runs = 1
    /\ group_summary' = GroupSummary(df)
    /\ summary_runs' = 2
    /\ UNCHANGED << ch_pc, ch_files, ch_i, ch_results, df, ch_result, notChVars >>

NextHall ==
    \/ AnalyzeFile
    \/ NoResults
    \/ BuildFrame
    \/ FrameRaises
    \/ CreateSummary
    \/ SummaryAgain

SpecHall == InitHall /\ [][NextHall]_vars

\* --------------------------------------------- the two aggregations together
InitAggregate == InitMetric \/ InitHall

NextAggregate == NextMetric \/ NextHall

SpecAggregate == InitAggregate /\ [][NextAggregate]_vars

MaxDocx == 2

\* filename.stem: the name up to its last dot.
Stem(name) ==
    LET dots == {i \in 2..Len(name) : name[i] = "."}
    IN  IF dots = {} THEN name ELSE SubSeq(name, 1, Max(dots) - 1)

\* get_document_number(filename): the stem when it is six digits, else None.
get_document_number(filename) ==
    LET basename == Stem(filename)
    IN  IF Len(basename) = 6 /\ AllDigits(basename) THEN basename ELSE NoneStr

\* The *.docx names the glob can give.
DocxNames == { <<"2","0","1","3","0","1",".","d","o","c","x">>, <<"2","0","1","3","0","2",".","d","o","c","x">>, <<"2","0","1","3","0","1","1",".","d","o","c","x">>, <<"n","o","t","e","s",".","d","o","c","x">> }

\* find_docx_files(): the entries with a document number, in glob order.
RECURSIVE find_docx_files(_)
find_docx_files(listing) ==
    IF listing = <<>> THEN <<>>
    ELSE (IF get_document_number(Head(listing)) # NoneStr THEN <<Head(listing)>> ELSE <<>>)
         \o find_docx_files(Tail(listing))

\* The title patterns of the command line (one or more).
TitlePatterns == { <<"i","n","t","r","o">>, <<"a","i","m">> }

\* [p.text.strip() for p in doc.paragraphs if p.text.strip()]
RECURSIVE StrippedParagraphs(_)
StrippedParagraphs(texts) ==
    IF texts = <<>> THEN <<>>
    ELSE (IF Strip(Head(texts)) # <<>> THEN <<Strip(Head(texts))>> ELSE <<>>)
         \o StrippedParagraphs(Tail(texts))

\* re.search(title_pattern, text, re.IGNORECASE) for a pattern without metacharacters.
TitleMatches(title_pattern, text) == Contains(Lower(text), Lower(title_pattern))

Letters == DOMAIN UpperToLower \cup {UpperToLower[c] : c \in DOMAIN UpperToLower}

\* The length of the longest prefix of text made of the characters of S.
RECURSIVE LeadingRun(_, _)
LeadingRun(text, S) ==
    IF text # <<>> /\ Head(text) \in S THEN 1 + LeadingRun(Tail(text), S) ELSE 0

\* re.match(r'^[IVX]+\.|\d+\.|\([a-zA-Z]\)', text)
NumberedHeading(text) ==
    LET dotAfter(n) == n >= 1 /\ Len(text) > n /\ text[n + 1] = "."
    IN  \/ dotAfter(LeadingRun(text, {"I", "V", "X"}))
        \/ dotAfter(LeadingRun(text, Digits))
        \/ Len(text) >= 3 /\ text[1] = "(" /\ text[2] \in Letters /\ text[3] = ")"

\* The test that ends a section, applied to the paragraph after the current one.
HeadingLike(next_text) ==
    /\ Len(next_text) < 100
    /\ \/ EndsWith(next_text, <<":">>)
       \/ EndsWith(next_text, <<"U+0440", "U+0435", "U+0434">>)
       \/ EndsWith(next_text, <<".">>)
       \/ NumberedHeading(next_text)

\* The for loop of extract_text_under_title from paragraph i on.
RECURSIVE ExtractLoop(_, _, _, _, _, _)
ExtractLoop(paragraphs, title_pattern, i, capture_text, found_title, found_text) ==
    IF i > Len(paragraphs) THEN [text |-> found_text, title |-> found_title]
    ELSE IF ~capture_text
         THEN IF TitleMatches(title_pattern, paragraphs[i])
              THEN ExtractLoop(paragraphs, title_pattern, i + 1, TRUE, paragraphs[i], found_text)
              ELSE ExtractLoop(paragraphs, title_pattern, i + 1, FALSE, found_title, found_text)
         ELSE IF i < Len(paragraphs) /\ HeadingLike(paragraphs[i + 1])
              THEN [text |-> found_text, title |-> found_title]
              ELSE ExtractLoop(paragraphs, title_pattern, i + 1, TRUE, found_title,
                               Append(found_text, paragraphs[i]))

\* extract_text_under_title(doc_path, title_pattern): the paragraphs found and
\* the title, or (None, None): text <<>> stands for None.  A document that
\* cannot be opened gives (None, None) too.
extract_text_under_title(doc, title_pattern) ==
    IF ~doc.readable THEN [text |-> <<>>, title |-> NoneStr]
    ELSE LET got == ExtractLoop(StrippedParagraphs(doc.paragraphs), title_pattern, 1,
                                FALSE, NoneStr, <<>>)
         IN  IF got.text # <<>> THEN got ELSE [text |-> <<>>, title |-> NoneStr]

\* The documents of the run: what Document(doc_path) gives.
DocContents ==
    { [readable |-> TRUE, paragraphs |-> << <<"I","n","t","r","o",":">>, <<"f","i","r","s","t">>, <<"s","e","c","o","n","d">>, <<"A","i","m",":">>, <<"g","o","a","l">> >>],
      [readable |-> TRUE, paragraphs |-> << <<"A","i","m",":">>, <<"g","o","a","l">>, <<" ">>, <<"m","o","r","e">> >>],
      [readable |-> TRUE, paragraphs |-> << <<"I","n","t","r","o",":">>, <<"1","."," ","A","i","m">> >>],
      [readable |-> TRUE, paragraphs |-> << <<"p","l","a","i","n">>, <<"t","e","x","t">> >>],
      [readable |-> FALSE, paragraphs |-> <<>>] }

\* re.sub(r'[<>:"/\\|?*]', '', title)[:50]
CleanTitle(title) ==
    LET IsKept(c) == c \notin {"<", ">", ":", "\"", "/", "\\", "|", "?", "*"}
        kept == SelectSeq(title, IsKept)
    IN  IF Len(kept) > 50 THEN SubSeq(kept, 1, 50) ELSE kept

\* f"{doc_number}_{clean_title}.txt"
OutputFilename(doc_number, title) == doc_number \o <<"_">> \o CleanTitle(title) \o DotTxt

\* return True at the end of process_documents.
ProcessReturn(count) == "True"

\* main is entered with the arguments parsed.
InitExtract ==
    /\ CnIdle
    /\ CsIdle
    /\ CeIdle
    /\ ScIdle
    /\ RnIdle
    /\ WkIdle
    /\ OrgIdle
    /\ ClsIdle
    /\ EvIdle
    /\ AmIdle
    /\ ChIdle
    /\ ex_pc = "main"
    /\ ex_listing \in {q \in SeqsUpTo(DocxNames, MaxDocx) : Distinct(q)}
    /\ ex_patterns \in {q \in SeqsUpTo(TitlePatterns, 2) : q # <<>> /\ Distinct(q)}
    /\ doc_files = <<>>
    /\ ex_content = <<>>
    /\ ex_i = 0
    /\ ex_j = 0
    /\ successful_extractions = 0
    /\ ex_saved = <<>>
    /\ ex_result = Unset
    /\ ex_exit = -1

\* if not os.path.isdir(args.target_directory): parser.error(...)
ExtractNoInputDir ==
    /\ ex_pc = "main"
    /\ ex_listing = <<>>
    /\ ex_pc' = "exited"
    /\ ex_exit' = 2
    /\ UNCHANGED << ex_listing, ex_patterns, doc_files, ex_content, ex_i, ex_j,
                    successful_extractions, ex_saved, ex_result, notExVars >>

\* process_documents is entered: doc_files = self.find_docx_files()
ExtractFind ==
    /\ ex_pc = "main"
    /\ doc_files' = find_docx_files(ex_listing)
    /\ ex_pc' = "start"
    /\ UNCHANGED << ex_listing, ex_patterns, ex_content, ex_i, ex_j,
                    successful_extractions, ex_saved, ex_result, ex_exit, notExVars >>

\* if not doc_files: return False
ExtractNoDocuments ==
    /\ ex_pc = "start"
    /\ doc_files = <<>>
    /\ ex_result' = "False"
    /\ ex_pc' = "returned"
    /\ UNCHANGED << ex_listing, ex_patterns, doc_files, ex_content, ex_i, ex_j,
                    successful_extractions, ex_saved, ex_exit, notExVars >>

\* The outer loop takes the next document.
ExtractNextDocument ==
    /\ ex_pc \in {"start", "loop"}
    /\ doc_files # <<>>
    /\ ex_pc = "loop" => ex_j = Len(ex_patterns)
    /\ ex_i < Len(doc_files)
    /\ ex_i' = ex_i + 1
    /\ ex_j' = 0
    /\ \E doc \in DocContents : ex_content' = Append(ex_content, doc)
    /\ ex_pc' = "loop"
    /\ UNCHANGED << ex_listing, ex_patterns, doc_files, successful_extractions,
                    ex_saved, ex_result, ex_exit, notExVars >>

\* One pass of the inner loop: a pattern is looked for in the document and
\* what is found is saved; save_extracted_text may fail.
ExtractPattern ==
    /\ ex_pc = "loop"
    /\ ex_j < Len(ex_patterns)
    /\ ex_j' = ex_j + 1
    /\ LET got == extract_text_under_title(ex_content[ex_i], ex_patterns[ex_j + 1])
           name == OutputFilename(get_document_number(doc_files[ex_i]), got.title)
       IN  IF got.text = <<>>
           THEN UNCHANGED << successful_extractions, ex_saved >>
           ELSE \E success \in BOOLEAN :
                   IF success
                   THEN /\ ex_saved' = Put(ex_saved, name, got.text)
                        /\ successful_extractions' = successful_extractions + 1
                   ELSE UNCHANGED << successful_extractions, ex_saved >>
    /\ UNCHANGED << ex_pc, ex_listing, ex_patterns, doc_files, ex_content, ex_i,
                    ex_result, ex_exit, notExVars >>

\* The loops are done: return True.
ExtractReturn ==
    /\ ex_pc = "loop"
    /\ ex_i = Len(doc_files)
    /\ ex_j = Len(ex_patterns)
    /\ ex_result' = ProcessReturn(successful_extractions)
    /\ ex_pc' = "returned"
    /\ UNCHANGED << ex_listing, ex_patterns, doc_files, ex_content, ex_i, ex_j,
                    successful_extractions, ex_saved, ex_exit, notExVars >>

\* sys.exit(0 if success else 1)
ExtractExit ==
    /\ ex_pc = "returned"
    /\ ex_exit' = IF ex_result = "True" THEN 0 ELSE 1
    /\ ex_pc' = "exited"
    /\ UNCHANGED << ex_listing, ex_patterns, doc_files, ex_content, ex_i, ex_j,
                    successful_extractions, ex_saved, ex_result, notExVars >>

NextExtract ==
    \/ ExtractNoInputDir
    \/ ExtractFind
    \/ ExtractNoDocuments
    \/ ExtractNextDocument
    \/ ExtractPattern
    \/ ExtractReturn
    \/ ExtractExit

SpecExtract == InitExtract /\ [][NextExtract]_vars

\* ------------------------------------------------------- directory trees
\* A tree is the sequence of its entries, in the order a listing gives them.
\* An entry has a path (the names from the root down), a kind and, for a
\* symbolic link, the path it points to; the root is <<>>.
File(path) == [path |-> path, kind |-> "file", target |-> <<>>]

Dir(path) == [path |-> path, kind |-> "dir", target |-> <<>>]

Link(path, target) == [path |-> path, kind |-> "link", target |-> target]

Trees ==
    { <<>>,
      << Dir(<< <<"a">> >>) >>,
      << File(<< <<"l","o","g","_","1",".","t","x","t">> >>), File(<< <<"l","o","g","_","2",".","t","x","t">> >>), File(<< <<"n","o","t","e",".","T","X","T">> >>) >>,
      << File(<< <<"l","o","g","_","1",".","t","x","t">> >>), Dir(<< <<"a">> >>), File(<< <<"a">>, <<"l","o","g","_","1",".","t","x","t">> >>),
         Dir(<< <<"a">>, <<"b">> >>), File(<< <<"a">>, <<"b">>, <<"x","1",".","t","x","t">> >>) >>,
      << Dir(<< <<"a">> >>), File(<< <<"l","o","g","_","1",".","t","x","t">> >>), Link(<< <<"a">>, <<"u","p">> >>, <<>>),
         Link(<< <<"a">>, <<"l","o","g","_","l">> >>, << <<"l","o","g","_","1",".","t","x","t">> >>), File(<< <<"a">>, <<"l","o","g","_","2",".","t","x","t">> >>) >> }

\* The entry at a path, as a set of at most one entry.
EntryAt(tree, path) == {tree[k] : k \in {i \in DOMAIN tree : tree[i].path = path}}

\* What a path is once symbolic links are followed: "dir", "file" or "missing".
RECURSIVE Resolved(_, _, _)
Resolved(tree, path, hops) ==
    IF path = <<>> THEN "dir"
    ELSE IF EntryAt(tree, path) = {} \/ hops = 0 THEN "missing"
    ELSE LET e == CHOOSE x \in EntryAt(tree, path) : TRUE
         IN  IF e.kind = "link" THEN Resolved(tree, e.target, hops - 1) ELSE e.kind

\* entry.is_dir(), Path.is_file(): both follow symbolic links.
is_dir(tree, e) == Resolved(tree, e.path, Len(tree)) = "dir"

is_file(tree, e) == Resolved(tree, e.path, Len(tree)) = "file"

\* The directory a walked path stands for: symbolic links on the way resolved.
RECURSIVE RealPath(_, _)
RealPath(tree, path) ==
    IF path = <<>> THEN <<>>
    ELSE LET here == RealPath(tree, SubSeq(path, 1, Len(path) - 1)) \o <<path[Len(path)]>>
             e == CHOOSE x \in EntryAt(tree, here) : TRUE
         IN  IF e.kind = "link" THEN RealPath(tree, e.target) ELSE here

\* The entries of a directory, in listing order.
RECURSIVE ChildrenFrom(_, _, _)
ChildrenFrom(tree, dir, k) ==
    IF k > Len(tree) THEN <<>>
    ELSE (IF /\ Len(tree[k].path) = Len(dir) + 1
             /\ SubSeq(tree[k].path, 1, Len(dir)) = dir
          THEN <<tree[k]>> ELSE <<>>)
         \o ChildrenFrom(tree, dir, k + 1)

\* os.scandir(top) / the children a glob looks at.
Children(tree, dir) == ChildrenFrom(tree, RealPath(tree, dir), 1)

\* ---------------------------------------------------------------- os.walk
\* A walk that goes into symbolic links to directories.
FollowAllLinks == TRUE

\* os.walk(root) with the default followlinks=False.
followlinks == FALSE

\* The directories os.walk goes into after listing dirpath: every entry that
\* is a directory, a symbolic link to one only when followlinks is set.
RECURSIVE WalkInto(_, _, _, _)
WalkInto(tree, dirpath, entries, follow) ==
    IF entries = <<>> THEN <<>>
    ELSE LET e == Head(entries)
             name == e.path[Len(e.path)]
         IN  (IF is_dir(tree, e) /\ (follow \/ e.kind # "link")
              THEN << dirpath \o <<name>> >> ELSE <<>>)
             \o WalkInto(tree, dirpath, Tail(entries), follow)

\* The filenames of the triple os.walk yields for dirpath: what is not a
\* directory, each with the dirpath it is joined to.
RECURSIVE WalkFiles(_, _, _)
WalkFiles(tree, dirpath, entries) ==
    IF entries = <<>> THEN <<>>
    ELSE LET e == Head(entries)
         IN  (IF is_dir(tree, e) THEN <<>>
              ELSE << [dirpath |-> dirpath, filename |-> e.path[Len(e.path)]] >>)
             \o WalkFiles(tree, dirpath, Tail(entries))

Bump(counts, key) ==
    Put(counts, key, IF key \in DOMAIN counts THEN counts[key] + 1 ELSE 1)

\* One directory is listed: its files are yielded and the directories to go
\* into are put in front of the ones still waiting (top-down order).
WalkVisit ==
    /\ wk_pc = "walking"
    /\ wk_stack # <<>>
    /\ LET dirpath == Head(wk_stack)
           entries == Children(wk_tree, dirpath)
       IN  /\ wk_out' = wk_out \o WalkFiles(wk_tree, dirpath, entries)
           /\ wk_visits' = Bump(wk_visits, RealPath(wk_tree, dirpath))
           /\ wk_stack' = WalkInto(wk_tree, dirpath, entries, followlinks) \o Tail(wk_stack)
    /\ UNCHANGED << wk_pc, wk_tree, notWkVars >>

\* Nothing is left to list: the generator is exhausted.
WalkDone ==
    /\ wk_pc = "walking"
    /\ wk_stack = <<>>
    /\ wk_pc' = "done"
    /\ UNCHANGED << wk_tree, wk_stack, wk_visits, wk_out, notWkVars >>

\* os.walk(root) is called on a tree.
WalkStart ==
    /\ wk_pc = "walking"
    /\ wk_tree \in Trees
    /\ wk_stack = << <<>> >>
    /\ wk_visits = <<>>
    /\ wk_out = <<>>

\* ---------------------------------------------------------- rename_files.py
\* filepath.suffix: the name from its last dot on.
Suffix(name) == SubSeq(name, Len(Stem(name)) + 1, Len(name))

\* -p and -r of the command line.  A pattern is text without metacharacters,
\* \d+, or something re.compile rejects; a replacement is any text, path
\* separators included.
RenamePatterns ==
    { [valid |-> FALSE, kind |-> "literal", text |-> <<"(">>, replacement |-> <<>>],
      [valid |-> TRUE, kind |-> "literal", text |-> <<"l","o","g","_">>, replacement |-> <<"L">>],
      [valid |-> TRUE, kind |-> "digits", text |-> <<"\\","d","+">>, replacement |-> <<>>],
      [valid |-> TRUE, kind |-> "literal", text |-> <<"l","o","g","_","1">>, replacement |-> <<".",".","/","i","n","/","l","o","g","_","2">>],
      [valid |-> TRUE, kind |-> "literal", text |-> <<"l","o","g","_","1">>, replacement |-> <<".",".","/","o","u","t","/","l","o","g","_","2">>] }

\* re.sub(pattern, replacement, s): the matches taken from the left, not overlapping.
RECURSIVE Sub(_, _)
Sub(pattern, s) ==
    IF s = <<>> THEN <<>>
    ELSE IF pattern.kind = "digits"
         THEN LET n == LeadingRun(s, Digits)
              IN  IF n > 0 THEN pattern.replacement \o Sub(pattern, SubSeq(s, n + 1, Len(s)))
                  ELSE <<Head(s)>> \o Sub(pattern, Tail(s))
         ELSE LET n == Len(pattern.text)
              IN  IF n <= Len(s) /\ SubSeq(s, 1, n) = pattern.text
                  THEN pattern.replacement \o Sub(pattern, SubSeq(s, n + 1, Len(s)))
                  ELSE <<Head(s)>> \o Sub(pattern, Tail(s))

\* generate_new_name(filepath)
generate_new_name(args, filepath) ==
    LET name == filepath[Len(filepath)]
    IN  IF args.preserve_extension
        THEN Sub(args.pattern, Stem(name)) \o Suffix(name)
        ELSE Sub(args.pattern, name)

\* The paths of the children of dir that are files, in listing order.
RECURSIVE FilesAmong(_, _)
FilesAmong(tree, entries) ==
    IF entries = <<>> THEN <<>>
    ELSE (IF is_file(tree, Head(entries)) THEN <<Head(entries).path>> ELSE <<>>)
         \o FilesAmong(tree, Tail(entries))

\* The directories '**' selects below dir, dir first: symbolic links are not gone into.
RECURSIVE GlobDirs(_, _, _)
GlobDirs(tree, entries, todo) ==
    IF entries = <<>>
    THEN (IF todo = <<>> THEN <<>>
          ELSE <<Head(todo)>> \o GlobDirs(tree, Children(tree, Head(todo)), Tail(todo)))
    ELSE GlobDirs(tree, Tail(entries),
                  IF Head(entries).kind = "dir" THEN Append(todo, Head(entries).path) ELSE todo)

RECURSIVE FilesOfDirs(_, _)
FilesOfDirs(tree, dirs) ==
    IF dirs = <<>> THEN <<>>
    ELSE FilesAmong(tree, Children(tree, Head(dirs))) \o FilesOfDirs(tree, Tail(dirs))

\* A find_files that never looks below the input directory.
find_files_flat(tree, recursive) == FilesAmong(tree, Children(tree, <<>>))

\* find_files(): [f for f in self.input_dir.glob(pattern) if f.is_file()]
find_files(tree, recursive) ==
    IF recursive
    THEN FilesOfDirs(tree, <<<<>>>> \o GlobDirs(tree, Children(tree, <<>>), <<>>))
    ELSE FilesAmong(tree, Children(tree, <<>>))

\* The directories of the command line, as paths from the directory they are both in.
InputDir == << <<"i","n">> >>

OutputDir == << <<"o","u","t">> >>

\* The components of a path written with "/": pathlib leaves out the empty
\* ones and ".", and keeps "..".
RECURSIVE SplitPath(_, _)
SplitPath(text, part) ==
    LET done == IF part = <<>> \/ part = <<".">> THEN <<>> ELSE <<part>>
    IN  IF text = <<>> THEN done
        ELSE IF Head(text) = "/" THEN done \o SplitPath(Tail(text), <<>>)
        ELSE SplitPath(Tail(text), Append(part, Head(text)))

\* self.output_dir / new_name
OutputPath(new_name) == OutputDir \o SplitPath(new_name, <<>>)

\* The file a path names when it is opened: ".." is the directory above.
RECURSIVE Resolve(_, _)
Resolve(path, seen) ==
    IF path = <<>> THEN seen
    ELSE IF Head(path) = <<".", ".">>
         THEN Resolve(Tail(path), SubSeq(seen, 1, Len(seen) - 1))
         ELSE Resolve(Tail(path), Append(seen, Head(path)))

\* The first pass of rename_files over files from position k on: the map, or
\* the naming conflict that ends the run.  Paths are compared as written.
RECURSIVE FirstPass(_, _, _, _)
FirstPass(args, files, k, map) ==
    IF k > Len(files) THEN [conflict |-> FALSE, rename_map |-> map]
    ELSE LET new_path == OutputPath(generate_new_name(args, files[k]))
         IN  IF \E j \in DOMAIN map : map[j].new_path = new_path
             THEN [conflict |-> TRUE, rename_map |-> map]
             ELSE FirstPass(args, files, k + 1,
                            Append(map, [old_path |-> files[k], new_path |-> new_path]))

\* Something done to the file system.
Effect(op, src, dst) == [op |-> op, src |-> src, dst |-> dst]

\* What validate_directories can have done when it returns: the output
\* directory made when it was not there, the test file written, the test file
\* removed, stopping at the first step that raises.
RenameValidationEffects(output_exists, writable) ==
    LET made == IF output_exists THEN <<>> ELSE << Effect("makedirs", <<>>, <<>>) >>
        all == made \o << Effect("test_write", <<>>, <<>>), Effect("test_remove", <<>>, <<>>) >>
    IN  IF writable THEN {all}
        ELSE {SubSeq(all, 1, n) : n \in 0..(Len(all) - 1)}

\* if not args.dry_run: validate_directories(...)
Validates(dry) == ~dry

\* if not self.dry_run: self.output_dir.mkdir(parents=True, exist_ok=True)
MkdirOutput(dry, fs) == IF dry THEN fs ELSE Append(fs, Effect("mkdir", <<>>, <<>>))

\* main is entered with the arguments parsed.
InitRename ==
    /\ CnIdle
    /\ CsIdle
    /\ CeIdle
    /\ ScIdle
    /\ OrgIdle
    /\ ClsIdle
    /\ EvIdle
    /\ AmIdle
    /\ ChIdle
    /\ ExIdle
    /\ WkIdle
    /\ rn_pc = "main"
    /\ rn_args \in [dry_run : BOOLEAN, recursive : BOOLEAN, preserve_extension : BOOLEAN,
                    pattern : RenamePatterns, input_exists : BOOLEAN]
    /\ rn_tree \in Trees
    /\ rn_args.input_exists \/ rn_tree = <<>>
    /\ rn_files = <<>>
    /\ rename_map = <<>>
    /\ rn_processed = 0
    /\ successful_renames = 0
    /\ rn_fs = <<>>
    /\ rn_result = Unset
    /\ rn_exit = -1

\* The directories are validated unless this is a dry run; a missing input
\* directory or an output directory that cannot be written ends the program
\* with parser.error, status 2.
RenameValidate ==
    /\ rn_pc = "main"
    /\ IF ~Validates(rn_args.dry_run)
       THEN rn_fs' = rn_fs /\ rn_exit' = rn_exit /\ rn_pc' = "regex"
       ELSE IF ~rn_args.input_exists
       THEN rn_fs' = rn_fs /\ rn_exit' = 2 /\ rn_pc' = "exited"
       ELSE \E output_exists \in BOOLEAN, writable \in BOOLEAN :
               /\ rn_fs' \in {rn_fs \o e : e \in RenameValidationEffects(output_exists, writable)}
               /\ IF writable THEN rn_exit' = rn_exit /\ rn_pc' = "regex"
                  ELSE rn_exit' = 2 /\ rn_pc' = "exited"
    /\ UNCHANGED << rn_args, rn_tree, rn_files, rename_map, rn_processed,
                    successful_renames, rn_result, notRnVars >>

\* re.compile(args.pattern): a pattern that does not compile ends the program
\* with parser.error, status 2.
RenameCompile ==
    /\ rn_pc = "regex"
    /\ IF rn_args.pattern.valid
       THEN rn_exit' = rn_exit /\ rn_pc' = "start"
       ELSE rn_exit' = 2 /\ rn_pc' = "exited"
    /\ UNCHANGED << rn_args, rn_tree, rn_files, rename_map, rn_processed,
                    successful_renames, rn_fs, rn_result, notRnVars >>

\* rename_files up to its second pass: the files are found, the map is built
\* and the output directory is made; no file or a naming conflict returns False.
RenamePlan ==
    /\ rn_pc = "start"
    /\ rn_files' = find_files(rn_tree, rn_args.recursive)
    /\ LET plan == FirstPass(rn_args, rn_files', 1, <<>>)
       IN  IF rn_files' = <<>> \/ plan.conflict
           THEN /\ rn_result' = "False"
                /\ rn_pc' = "returned"
                /\ UNCHANGED << rename_map, rn_fs >>
           ELSE /\ rename_map' = plan.rename_map
                /\ rn_fs' = MkdirOutput(rn_args.dry_run, rn_fs)
                /\ rn_pc' = "copy"
                /\ rn_result' = rn_result
    /\ UNCHANGED << rn_args, rn_tree, rn_processed, successful_renames, rn_exit,
                    notRnVars >>

\* output_dir.mkdir raises: the exception leaves rename_files.
RenameMkdirRaises ==
    /\ rn_pc = "start"
    /\ ~rn_args.dry_run
    /\ rn_files' = find_files(rn_tree, rn_args.recursive)
    /\ rn_files' # <<>>
    /\ ~FirstPass(rn_args, rn_files', 1, <<>>).conflict
    /\ rename_map' = FirstPass(rn_args, rn_files', 1, <<>>).rename_map
    /\ rn_pc' = "raised"
    /\ UNCHANGED << rn_args, rn_tree, rn_processed, successful_renames, rn_fs,
                    rn_result, rn_exit, notRnVars >>

\* One pass of the second loop: in a dry run the file is only counted;
\* otherwise it is copied onto the file its new path names, and a copy that
\* raises is logged and not counted.  shutil.copy2 raises SameFileError
\* before it writes when the new path names the source itself.
RenameCopy ==
    /\ rn_pc = "copy"
    /\ rn_processed < Len(rename_map)
    /\ rn_processed' = rn_processed + 1
    /\ LET pair == rename_map[rn_processed + 1]
           src == InputDir \o pair.old_path
           dst == Resolve(pair.new_path, <<>>)
           copied == Append(rn_fs, Effect("copy", src, dst))
       IN  IF rn_args.dry_run
           THEN rn_fs' = rn_fs /\ successful_renames' = successful_renames + 1
           ELSE IF src = dst
           THEN rn_fs' = rn_fs /\ successful_renames' = successful_renames
           ELSE \E raised \in BOOLEAN, written \in BOOLEAN :
                   /\ rn_fs' = IF ~raised \/ written THEN copied ELSE rn_fs
                   /\ successful_renames' =
                         IF raised THEN successful_renames ELSE successful_renames + 1
    /\ UNCHANGED << rn_pc, rn_args, rn_tree, rn_files, rename_map, rn_result,
                    rn_exit, notRnVars >>

\* return successful_renames > 0
RenameReturn ==
    /\ rn_pc = "copy"
    /\ rn_processed = Len(rename_map)
    /\ rn_result' = IF successful_renames > 0 THEN "True" ELSE "False"
    /\ rn_pc' = "returned"
    /\ UNCHANGED << rn_args, rn_tree, rn_files, rename_map, rn_processed,
                    successful_renames, rn_fs, rn_exit, notRnVars >>

\* sys.exit(0 if success else 1); an exception out of rename_files gives 1.
RenameExit ==
    /\ rn_pc \in {"returned", "raised"}
    /\ rn_exit' = IF rn_pc = "returned" /\ rn_result = "True" THEN 0 ELSE 1
    /\ rn_pc' = "exited"
    /\ UNCHANGED << rn_args, rn_tree, rn_files, rename_map, rn_processed,
                    successful_renames, rn_fs, rn_result, notRnVars >>

NextRename ==
    \/ RenameValidate
    \/ RenameCompile
    \/ RenamePlan
    \/ RenameMkdirRaises
    \/ RenameCopy
    \/ RenameReturn
    \/ RenameExit

SpecRename == InitRename /\ [][NextRename]_vars

\* ------------------------------------------------------ claims: exit status
\* C11: when summaryExtractor has exited, its status is 0 exactly when at
\* least one section was extracted and saved, and non-zero when none was.
C11_ExitZeroIffExtracted ==
    ex_pc = "exited" => (ex_exit = 0 <=> successful_extractions > 0)

\* ------------------------------------------------- claims: unreadable files
\* A dict without a tag key: what analyze_directories appends for a file whose
\* read raised, analyze_file having returned an empty defaultdict.
ReadRaised(result) == DOMAIN result.counts = {}

\* C12: a file whose read raises contributes no record to the results of
\* analyze_directories.
C12_UnreadableContributesNoRow ==
    \A k \in DOMAIN ch_results : ~ReadRaised(ch_results[k])

\* ----------------------------------------------------------- claims: dry run
\* The command-line programs organize_files.py and rename_files.py, one of
\* them run per behaviour.
InitMains == InitOrganizeMain \/ InitRename

NextMains == NextOrganizeMain \/ NextRename

SpecMains == InitMains /\ [][NextMains]_vars

\* C13: in a dry run organize_files.py and rename_files.py write nothing: no
\* directory is made, no test file written, no file copied, no report written.
C13_DryRunWritesNothing ==
    /\ (org_pc # "idle" /\ dry_run) =>
          (org_fs = <<>> /\ output_files = <<>> /\ report = <<>>)
    /\ (rn_pc # "idle" /\ rn_args.dry_run) => rn_fs = <<>>

\* A dry run of rename_files.py counted two files, returned True and left
\* with status 0.
C13_Witness ==
    /\ rn_pc = "exited"
    /\ rn_args.dry_run
    /\ successful_renames >= 2
    /\ rn_exit = 0

\* ------------------------------------------- claims: configuration errors
\* The step that ends rename_files.py on a configuration error: re.compile
\* rejects the pattern, or the program ends and the input directory does not exist.
ConfigErrorExit ==
    /\ rn_pc # "exited"
    /\ rn_pc' = "exited"
    /\ rn_pc = "regex" \/ ~rn_args.input_exists

\* C14: when rename_files.py ends on an invalid regular expression or on an
\* input directory that does not exist, its status is non-zero and nothing
\* has been created, written, removed or copied, with and without --dry-run.
C14_ConfigErrorBeforeAnyOutput ==
    [][ConfigErrorExit => (rn_exit' # 0 /\ rn_fs' = <<>>)]_vars

\* ------------------------------------------- summaryEvaluation.py: main
\* The most rows df has.
MaxPairs == 2

\* The scorers main runs, in its order.
ScoreOrder == <<"BLEU", "ROUGE-W", "METEOR", "BERT">>

Scorers == {ScoreOrder[k] : k \in DOMAIN ScoreOrder}

\* The columns a scorer fills.
ScorerColumns(metric) ==
    IF metric = "BERT" THEN <<"BERT_P", "BERT_R", "BERT_F1">> ELSE <<metric>>

\* What the library computes for a column on a row: a value of its own for
\* each column and row.
Score(column, k) == <<column, k>>

\* None in a cell.
Missing == <<>>

\* A scorer that leaves out only the rows it raised on.
ApplyPerRow(rows, metric, column) ==
    [k \in DOMAIN rows |-> IF metric \in rows[k] THEN Missing ELSE Score(column, k)]

\* try: df[column] = df.apply(scorer, axis=1)  except Exception: df[column] = None
\* An exception on any row leaves apply, and the whole column is None.
ApplyScorer(rows, metric, column) ==
    IF \E k \in DOMAIN rows : metric \in rows[k]
    THEN [k \in DOMAIN rows |-> Missing]
    ELSE [k \in DOMAIN rows |-> Score(column, k)]

\* main has read and matched the summaries; df holds the pairs.
InitScore ==
    /\ CnIdle
    /\ CsIdle
    /\ CeIdle
    /\ OrgIdle
    /\ ClsIdle
    /\ EvIdle
    /\ AmIdle
    /\ ChIdle
    /\ ExIdle
    /\ WkIdle
    /\ RnIdle
    /\ sc_pc = "pairs"
    /\ sc_rows \in UNION {[1..n -> SUBSET Scorers] : n \in 0..MaxPairs}
    /\ sc_k = 0
    /\ sc_df = <<>>
    /\ sc_csv = <<>>

\* if not summary_pairs: return
ScoreNoPairs ==
    /\ sc_pc = "pairs"
    /\ sc_rows = <<>>
    /\ sc_pc' = "done"
    /\ UNCHANGED << sc_rows, sc_k, sc_df, sc_csv, notScVars >>

\* The next scorer is applied to every row, inside its own try.
ScoreMetric ==
    /\ sc_pc = "pairs"
    /\ sc_rows # <<>>
    /\ sc_k < Len(ScoreOrder)
    /\ sc_k' = sc_k + 1
    /\ LET metric == ScoreOrder[sc_k + 1]
           columns == ScorerColumns(metric)
       IN  sc_df' = sc_df \o [c \in DOMAIN columns |->
                                 [name |-> columns[c],
                                  values |-> ApplyScorer(sc_rows, metric, columns[c])]]
    /\ UNCHANGED << sc_pc, sc_rows, sc_csv, notScVars >>

\* df.to_csv(args.output_csv, index=False), inside a try; the averages and the
\* grouped means that follow are printed from the same frame.
ScoreSave ==
    /\ sc_pc = "pairs"
    /\ sc_rows # <<>>
    /\ sc_k = Len(ScoreOrder)
    /\ \E saved \in BOOLEAN : sc_csv' = IF saved THEN sc_df ELSE sc_csv
    /\ sc_pc' = "done"
    /\ UNCHANGED << sc_rows, sc_k, sc_df, notScVars >>

NextScore ==
    \/ ScoreNoPairs
    \/ ScoreMetric
    \/ ScoreSave

SpecScore == InitScore /\ [][NextScore]_vars

\* ----------------------------------------------- claims: scorer failures
\* The metric a column belongs to.
MetricOf(column) == IF column \in {"BERT_P", "BERT_R", "BERT_F1"} THEN "BERT" ELSE column

\* C15 as stated: when main is done with a frame, a cell is missing exactly
\* when the scorer of its metric raised on its row.
C15_IsolatedPerRow ==
    (sc_pc = "done" /\ sc_rows # <<>>) =>
        \A c \in DOMAIN sc_df : \A k \in DOMAIN sc_rows :
            sc_df[c].values[k] = Missing <=> MetricOf(sc_df[c].name) \in sc_rows[k]

\* C15: when main is done with a frame, every metric has its columns; a
\* column is missing in every row when the scorer of its metric raised on
\* some row, and holds the score of every row otherwise, whatever the other
\* scorers did; what was saved is this frame.
C15_IsolatedPerMetric ==
    (sc_pc = "done" /\ sc_rows # <<>>) =>
        /\ {sc_df[c].name : c \in DOMAIN sc_df} =
              {"BLEU", "ROUGE-W", "METEOR", "BERT_P", "BERT_R", "BERT_F1"}
        /\ \A c \in DOMAIN sc_df : \A k \in DOMAIN sc_rows :
              sc_df[c].values[k] =
                 IF \E j \in DOMAIN sc_rows : MetricOf(sc_df[c].name) \in sc_rows[j]
                 THEN Missing
                 ELSE Score(sc_df[c].name, k)
        /\ sc_csv \in {<<>>, sc_df}

\* The METEOR scorer raised on the first of two pairs only, no other scorer
\* raised, and the frame was saved.
C15_Witness ==
    /\ sc_pc = "done"
    /\ Len(sc_rows) = 2
    /\ sc_rows[1] = {"METEOR"}
    /\ sc_rows[2] = {}
    /\ sc_csv = sc_df
    /\ sc_csv # <<>>

\* ------------------------------------------------------------ CountError.py
\* args.file_pattern: any string.
Prefixes == {<<>>, <<"l","o","g","_">>, <<"x">>, <<"n","o","t","e">>}

\* filename.startswith(file_pattern)
StartsWith(s, p) == Len(p) <= Len(s) /\ SubSeq(s, 1, Len(p)) = p

\* os.path.join(dirpath, filename)
JoinPath(yielded) == yielded.dirpath \o <<yielded.filename>>

\* find_matching_files over what os.walk yields: the paths of the filenames
\* that start with file_pattern, in the order of the walk.
find_matching_files(walked, prefix) ==
    LET Matches(y) == StartsWith(y.filename, prefix)
        kept == SelectSeq(walked, Matches)
    IN  [k \in DOMAIN kept |-> JoinPath(kept[k])]

\* args.strings (nargs='+'): one target or more, a target being any text of
\* the command line, a repeated one included.
TargetLists ==
    { << <<"a","a">> >>,
      << <<"a","a">>, <<"b">> >>,
      << <<"a","a">>, <<"a","a">> >>,
      << <<"b",",","a">>, <<"\"","q">> >>,
      << <<"a","\n">>, <<"a","a">> >> }

\* What the matching files hold.
FileTexts ==
    { <<"a","a","a","\n">>,
      <<"a","a"," ","b","\r","\n","b",",","a","a">> }

\* for line in f, the file being opened in text mode: the lines with their
\* ends, "\r\n" and "\r" read as "\n".
RECURSIVE SplitLines(_, _)
SplitLines(text, line) ==
    IF text = <<>> THEN (IF line = <<>> THEN <<>> ELSE <<line>>)
    ELSE IF Head(text) = "\n"
         THEN <<Append(line, "\n")>> \o SplitLines(Tail(text), <<>>)
    ELSE IF Head(text) = "\r"
         THEN <<Append(line, "\n")>> \o
              SplitLines(IF Tail(text) # <<>> /\ Head(Tail(text)) = "\n"
                         THEN Tail(Tail(text)) ELSE Tail(text), <<>>)
    ELSE SplitLines(Tail(text), Append(line, Head(text)))

\* What reading a file can give: its lines up to the end, or up to the place
\* where open or the decoding raises.
ReadsOf(text) ==
    LET lines == SplitLines(text, <<>>)
    IN  { [lines |-> SubSeq(lines, 1, n), raised |-> raised] :
             n \in 0..Len(lines), raised \in BOOLEAN } \
        { [lines |-> SubSeq(lines, 1, n), raised |-> FALSE] : n \in 0..(Len(lines) - 1) }

FileReads == UNION { ReadsOf(text) : text \in FileTexts }

\* line.count(target): the occurrences that do not overlap, from the left.
RECURSIVE Count(_, _)
Count(line, target) ==
    IF target = <<>> THEN Len(line) + 1
    ELSE IF Len(line) < Len(target) THEN 0
    ELSE IF SubSeq(line, 1, Len(target)) = target
         THEN 1 + Count(SubSeq(line, Len(target) + 1, Len(line)), target)
         ELSE Count(Tail(line), target)

\* d.get(key, 0) on a dictionary kept as its items in insertion order.
GetCount(d, key) ==
    IF \E k \in DOMAIN d : d[k].String = key
    THEN d[CHOOSE k \in DOMAIN d : d[k].String = key].Frequency
    ELSE 0

\* d[key] += n on a defaultdict(int).
AddCount(d, key, n) ==
    IF \E k \in DOMAIN d : d[k].String = key
    THEN [k \in DOMAIN d |->
            IF d[k].String = key THEN [d[k] EXCEPT !.Frequency = @ + n] ELSE d[k]]
    ELSE Append(d, [String |-> key, Frequency |-> n])

\* for target in target_strings: counts[target] += line.count(target)
RECURSIVE CountLine(_, _, _, _)
CountLine(counts, line, targets, k) ==
    IF k > Len(targets) THEN counts
    ELSE CountLine(AddCount(counts, targets[k], Count(line, targets[k])),
                   line, targets, k + 1)

\* count_strings_in_file over the lines the file gave.
RECURSIVE count_strings_in_file(_, _, _)
count_strings_in_file(counts, lines, targets) ==
    IF lines = <<>> THEN counts
    ELSE count_strings_in_file(CountLine(counts, Head(lines), targets, 1),
                               Tail(lines), targets)

\* for target in target_strings: aggregated[target] += file_counts.get(target, 0)
RECURSIVE AggregateFile(_, _, _, _)
AggregateFile(agg, file_counts, targets, k) ==
    IF k > Len(targets) THEN agg
    ELSE AggregateFile(AddCount(agg, targets[k], GetCount(file_counts, targets[k])),
                       file_counts, targets, k + 1)

\* str(count)
DigitSeq == <<"0", "1", "2", "3", "4", "5", "6", "7", "8", "9">>

RECURSIVE Str(_)
Str(n) == IF n < 10 THEN <<DigitSeq[n + 1]>>
          ELSE Str(n \div 10) \o <<DigitSeq[(n % 10) + 1]>>

\* A field written as it is, whatever it holds.
WriteFieldBare(field) == field

\* csv.writer, QUOTE_MINIMAL: a field with the delimiter, the quote character
\* or a line end in it is put between quotes, its quotes doubled.
WriteField(field) ==
    LET special == \E k \in DOMAIN field : field[k] \in {",", "\"", "\r", "\n"}
        Doubled(c) == IF c = "\"" THEN <<"\"", "\"">> ELSE <<c>>
    IN  IF special
        THEN <<"\"">> \o Concat([k \in DOMAIN field |-> Doubled(field[k])]) \o <<"\"">>
        ELSE field

\* writer.writerow: the fields joined by commas, then "\r\n".
RECURSIVE WriteRow(_, _)
WriteRow(fields, k) ==
    IF k > Len(fields) THEN <<"\r", "\n">>
    ELSE (IF k > 1 THEN <<",">> ELSE <<>>) \o WriteField(fields[k]) \o WriteRow(fields, k + 1)

CsvHeader == << <<"S","t","r","i","n","g">>, <<"F","r","e","q","u","e","n","c","y">> >>

\* save_to_csv: the header, then one row per item of the dictionary.
save_to_csv(agg) ==
    WriteRow(CsvHeader, 1) \o
    Concat([k \in DOMAIN agg |-> WriteRow(<<agg[k].String, Str(agg[k].Frequency)>>, 1)])

\* main is entered with the arguments parsed; os.walk starts at root_dir.
InitCountError ==
    /\ target_strings \in TargetLists
    /\ cn_reads = <<>>
    /\ aggregated = <<>>
    /\ csv_text = <<>>
    /\ OrgIdle
    /\ ClsIdle
    /\ EvIdle
    /\ AmIdle
    /\ ChIdle
    /\ ExIdle
    /\ RnIdle
    /\ ScIdle
    /\ CsIdle
    /\ WalkStart
    /\ ce_pc = "search"
    /\ file_pattern \in Prefixes
    /\ matching_files = <<>>

\* matching_files = list(find_matching_files(...)): the generator has been run
\* to its end; with no file main returns.
CountErrorFound ==
    /\ ce_pc = "search"
    /\ wk_pc = "done"
    /\ matching_files' = find_matching_files(wk_out, file_pattern)
    /\ ce_pc' = IF matching_files' = <<>> THEN "done" ELSE "count"
    /\ UNCHANGED << file_pattern, notCeVars >>

\* aggregate_counts, one file: the file is read and counted, and its counts
\* are added to the aggregate.
CountErrorFile ==
    /\ ce_pc = "count"
    /\ Len(cn_reads) < Len(matching_files)
    /\ \E read \in FileReads :
          /\ cn_reads' = Append(cn_reads, read)
          /\ aggregated' =
               AggregateFile(aggregated,
                             count_strings_in_file(<<>>, read.lines, target_strings),
                             target_strings, 1)
    /\ UNCHANGED << ceVars, target_strings, csv_text, notCountVars >>

\* save_to_csv(aggregated_counts, args.output_file); an exception of open is
\* printed and main ends all the same.
CountErrorSave ==
    /\ ce_pc = "count"
    /\ Len(cn_reads) = Len(matching_files)
    /\ \E opened \in BOOLEAN :
          csv_text' = IF opened THEN save_to_csv(aggregated) ELSE csv_text
    /\ ce_pc' = "done"
    /\ UNCHANGED << file_pattern, matching_files, target_strings, cn_reads,
                    aggregated, notCountVars >>

NextCountError ==
    \/ WalkVisit
    \/ WalkDone
    \/ CountErrorFound
    \/ CountErrorFile
    \/ CountErrorSave

SpecCountError == InitCountError /\ [][NextCountError]_vars

\* -------------------------------------------------------- countStatistics.py
\* is_text_file(filename)
is_text_file(filename) == EndsWith(Lower(filename), DotTxt)

\* traverse_directory over what os.walk yields.
traverse_directory(walked) ==
    LET IsText(y) == is_text_file(y.filename)
        kept == SelectSeq(walked, IsText)
    IN  [k \in DOMAIN kept |-> JoinPath(kept[k])]

\* How reading a file goes: it decodes as utf-8, it does not and is read again
\* as latin-1, or open or read raises something else.
ReadOutcomes == {"utf-8", "latin-1", "error"}

\* The calls of open() on a file in one pass of the loop: line 64, line 68
\* after a UnicodeDecodeError, and line 78 for the unique words.
OpensOf(outcome) ==
    IF outcome = "utf-8" THEN 2 ELSE IF outcome = "latin-1" THEN 3 ELSE 1

\* main(directory) is called; os.walk starts at the directory.
InitStatistics ==
    /\ CnIdle
    /\ OrgIdle
    /\ ClsIdle
    /\ EvIdle
    /\ AmIdle
    /\ ChIdle
    /\ ExIdle
    /\ RnIdle
    /\ ScIdle
    /\ CeIdle
    /\ WalkStart
    /\ cs_pc = "traverse"
    /\ cs_files = <<>>
    /\ cs_i = 0
    /\ cs_opens = <<>>
    /\ cs_processed = 0
    /\ cs_exit = -1

\* text_files = traverse_directory(directory); with no text file sys.exit(1).
StatisticsFound ==
    /\ cs_pc = "traverse"
    /\ wk_pc = "done"
    /\ cs_files' = traverse_directory(wk_out)
    /\ IF cs_files' = <<>>
       THEN cs_pc' = "exited" /\ cs_exit' = 1
       ELSE cs_pc' = "loop" /\ cs_exit' = cs_exit
    /\ UNCHANGED << cs_i, cs_opens, cs_processed, notCsVars >>

\* One pass of the loop over text_files.
StatisticsFile ==
    /\ cs_pc = "loop"
    /\ cs_i < Len(cs_files)
    /\ cs_i' = cs_i + 1
    /\ \E outcome \in ReadOutcomes :
          /\ cs_opens' = Append(cs_opens, OpensOf(outcome))
          /\ cs_processed' = IF outcome = "error" THEN cs_processed ELSE cs_processed + 1
    /\ UNCHANGED << cs_pc, cs_files, cs_exit, notCsVars >>

\* The aggregated statistics are printed and main returns.
StatisticsReport ==
    /\ cs_pc = "loop"
    /\ cs_i = Len(cs_files)
    /\ cs_pc' = "exited"
    /\ cs_exit' = 0
    /\ UNCHANGED << cs_files, cs_i, cs_opens, cs_processed, notCsVars >>

NextStatistics ==
    \/ WalkVisit
    \/ WalkDone
    \/ StatisticsFound
    \/ StatisticsFile
    \/ StatisticsReport

SpecStatistics == InitStatistics /\ [][NextStatistics]_vars

\* ------------------------------------------------------ claims: reading once
\* C16: every text file countStatistics.main goes through is opened for
\* reading at most once.
C16_OpenedAtMostOnce ==
    \A k \in DOMAIN cs_opens : cs_opens[k] <= 1

\* ------------------------------------------------- claims: the summary
\* a/b + c/d on exact quotients; NaN makes the sum NaN.
FracAdd(x, y) ==
    IF x = NaN \/ y = NaN THEN NaN
    ELSE Frac(x[1] * y[2] + y[1] * x[2], x[2] * y[2])

RECURSIVE FracSum(_, _)
FracSum(xs, k) == IF k > Len(xs) THEN <<0, 1>> ELSE FracAdd(xs[k], FracSum(xs, k + 1))

\* The create_summary of analyze_directories has run.
Summarized == summary_runs > 0

\* C17 as stated: every percentage is defined, and for every tag whose total
\* over all groups is not zero the percentages of the groups add up to 100.
C17_ShareOfGrandTotal ==
    Summarized =>
        \A t \in TagSet :
            /\ \A k \in DOMAIN group_summary : group_summary[k].percentage[t] # NaN
            /\ Aggregate(df, t).sum # 0 =>
                  FracSum([k \in DOMAIN group_summary |-> group_summary[k].percentage[t]], 1)
                     = <<100, 1>>

\* C17: a percentage is the tag's share of the total of its own group: in a
\* group whose total_hallucinations_sum is not zero it is 100 times the
\* group's sum of the tag over that total, and the percentages of the tags
\* add up to 100; in a group whose total is zero every percentage is NaN.
C17_ShareWithinGroup ==
    Summarized =>
        \A k \in DOMAIN group_summary :
            LET row == group_summary[k]
                total == row.agg["total_hallucinations"].sum
            IN  IF total = 0
                THEN \A t \in TagSet : row.percentage[t] = NaN
                ELSE /\ \A t \in TagSet :
                          row.percentage[t] = Frac(100 * row.agg[t].sum, total)
                     /\ FracSum([i \in DOMAIN hallucination_types |->
                                    row.percentage[hallucination_types[i]]], 1) = <<100, 1>>

\* The summary has a group without any hallucination and a group in which
\* UCE is two thirds of the hallucinations.
C17_Witness ==
    /\ Summarized
    /\ \E j, k \in DOMAIN group_summary :
          /\ group_summary[j].agg["total_hallucinations"].sum = 0
          /\ group_summary[j].percentage["UCE"] = NaN
          /\ group_summary[k].percentage["UCE"] = <<200, 3>>

\* What a record counts for a tag: a missing cell counts nothing.
CellValue(row, column) ==
    IF column = "total_hallucinations" THEN row.total_hallucinations
    ELSE IF row.cells[column] = NaN THEN 0 ELSE row.cells[column][1]

\* The total of a column over the records at the positions in idx.
RECURSIVE ColumnTotal(_, _, _)
ColumnTotal(frame, idx, column) ==
    IF idx = {} THEN 0
    ELSE LET i == CHOOSE x \in idx : TRUE
         IN  CellValue(frame[i], column) + ColumnTotal(frame, idx \ {i}, column)

\* The positions of the records that have the key of a summary row.
RecordsOf(frame, row) ==
    {i \in DOMAIN frame :
        frame[i].learning_model = row.learning_model /\ frame[i].model = row.model}

\* C18: in the summary every record is in exactly one group; a group's sum of
\* a tag (and of total_hallucinations) is the total of the column over the
\* group's records and its total_files is the number of those records; the
\* file counts of the groups add up to the number of records and their sums
\* to the totals over all records.
C18_GroupedConservation ==
    Summarized =>
        /\ \A i \in DOMAIN df :
              Cardinality({k \in DOMAIN group_summary :
                              i \in RecordsOf(df, group_summary[k])}) = 1
        /\ \A k \in DOMAIN group_summary :
              /\ group_summary[k].total_files =
                    Cardinality(RecordsOf(df, group_summary[k]))
              /\ group_summary[k].total_files > 0
              /\ \A c \in SummaryColumns :
                    group_summary[k].agg[c].sum =
                       ColumnTotal(df, RecordsOf(df, group_summary[k]), c)
        /\ SumOf([k \in DOMAIN group_summary |-> group_summary[k].total_files], 1) = Len(df)
        /\ \A c \in SummaryColumns :
              SumOf([k \in DOMAIN group_summary |-> group_summary[k].agg[c].sum], 1)
                 = ColumnTotal(df, DOMAIN df, c)

\* Three records were summarized in two groups: two files of one group that
\* count three UCE between them, and a file of another group.
C18_Witness ==
    /\ Summarized
    /\ Len(df) = 3
    /\ Len(group_summary) = 2
    /\ \E k \in DOMAIN group_summary :
          /\ group_summary[k].total_files = 2
          /\ group_summary[k].agg["UCE"].sum = 3

\* ------------------------------------------------------- claims: the walkers
\* CountError.py's search and rename_files.py, one of them run per behaviour.
InitFind == InitCountError \/ InitRename

NextFind == NextCountError \/ NextRename

SpecFind == InitFind /\ [][NextFind]_vars

\* The directories of a tree: the root and every entry that is a directory itself.
DirectoriesOf(tree) == {<<>>} \cup {tree[k].path : k \in {i \in DOMAIN tree : tree[i].kind = "dir"}}

\* An entry that is a file, or a symbolic link to one.
IsRegularFile(tree, e) ==
    \/ e.kind = "file"
    \/ e.kind = "link" /\ \E k \in DOMAIN tree : tree[k].path = e.target /\ tree[k].kind = "file"

\* The paths of the files at any depth under the root.
FilesAtAnyDepth(tree) ==
    {tree[k].path : k \in {i \in DOMAIN tree :
        /\ IsRegularFile(tree, tree[i])
        /\ SubSeq(tree[i].path, 1, Len(tree[i].path) - 1) \in DirectoriesOf(tree)}}

\* The name starts with the prefix, character by character.
HasPrefix(name, prefix) ==
    Len(prefix) <= Len(name) /\ \A i \in 1..Len(prefix) : name[i] = prefix[i]

\* C19: find_matching_files yields, each once, exactly the files at any depth
\* under the root whose name starts with the prefix; find_files returns, each
\* once, exactly the files that are direct children of the input directory
\* when recursive is false and the files at any depth when it is true.
C19_WalkerFilterAndDepth ==
    /\ ce_pc \in {"count", "done"} =>
          /\ Distinct(matching_files)
          /\ {matching_files[k] : k \in DOMAIN matching_files} =
                {p \in FilesAtAnyDepth(wk_tree) : HasPrefix(p[Len(p)], file_pattern)}
    /\ rn_pc \in {"copy", "raised", "returned"} =>
          /\ Distinct(rn_files)
          /\ {rn_files[k] : k \in DOMAIN rn_files} =
                IF rn_args.recursive THEN FilesAtAnyDepth(rn_tree)
                ELSE {p \in FilesAtAnyDepth(rn_tree) : Len(p) = 1}

\* The search for "log_" went through a tree with a symbolic link to a
\* directory above it and a symbolic link to a file, and found three files,
\* two of them below the root.
C19_Witness ==
    /\ ce_pc = "count"
    /\ file_pattern = <<"l","o","g","_">>
    /\ \E k \in DOMAIN wk_tree : wk_tree[k].kind = "link" /\ wk_tree[k].target = <<>>
    /\ Len(matching_files) = 3
    /\ Cardinality({k \in DOMAIN matching_files : Len(matching_files[k]) = 2}) = 2

\* ------------------------------------------------- claims: termination
\* The programs that enumerate with os.walk, one of them run per behaviour;
\* a running program takes its next step.
InitWalk == InitCountError \/ InitStatistics

NextWalk == NextCountError \/ NextStatistics

SpecWalk == InitWalk /\ [][NextWalk]_vars /\ WF_vars(NextWalk)

\* No directory has been listed more than once.
VisitedAtMostOnce == \A d \in DOMAIN wk_visits : wk_visits[d] <= 1

\* C20: on every tree, one with a cycle of symbolic links included, the walk
\* lists no directory more than once and comes to its end.
C20_WalkTerminates == []VisitedAtMostOnce /\ <>(wk_pc = "done")

\* The walk ended on a tree in which a symbolic link below the root points
\* back to the root, having listed the root and the directory of the link.
C20_Witness ==
    /\ wk_pc = "done"
    /\ \E k \in DOMAIN wk_tree : wk_tree[k].kind = "link" /\ wk_tree[k].target = <<>>
    /\ DOMAIN wk_visits = {<<>>, << <<"a">> >>}

\* ------------------------------------------------ claims: the counters
\* The sum of stats[shot][model] over the shot and model categories.
RECURSIVE StatsTotal(_, _)
StatsTotal(st, cells) ==
    IF cells = {} THEN 0
    ELSE LET c == CHOOSE x \in cells : TRUE
         IN  st[c[1]][c[2]] + StatsTotal(st, cells \ {c})

\* The loop of organize_files over a listing that is not empty has ended.
LoopEnded ==
    /\ text_files # <<>>
    /\ \/ org_pc = "loop" /\ processed_files = Len(text_files)
       \/ org_pc \in {"returned", "report_raised"}

\* C25: when the loop of organize_files has ended, processed_files is the
\* number of files, successful_moves and stats['unclassified'] add up to it,
\* the stats[shot][model] add up to successful_moves and unclassified_files
\* has stats['unclassified'] entries; in a dry run, in a real run, and when a
\* copy raised.
C25_CountersConsistent ==
    LoopEnded =>
        /\ processed_files = Len(text_files)
        /\ successful_moves + stats["unclassified"] = Len(text_files)
        /\ StatsTotal(stats, ShotCategories \X ModelCategories) = successful_moves
        /\ Len(unclassified_files) = stats["unclassified"]

\* A real run over three files ended: one was organized, one could not be
\* classified and the copy of one that was recognized raised.
C25_Witness ==
    /\ LoopEnded
    /\ ~dry_run
    /\ Len(text_files) = 3
    /\ successful_moves = 1
    /\ \E i, j \in DOMAIN unclassified_files :
          /\ Recognized(text_files[unclassified_files[i]])
          /\ ~Recognized(text_files[unclassified_files[j]])

\* The files present in output_dir/shot/model.
FilesPresent(shot, model) ==
    {target \in DOMAIN output_files : target[1] = shot /\ target[2] = model}

\* No mkdir or copy of the run raised: what is unclassified is so by its name.
NoCopyRaised ==
    \A i \in DOMAIN unclassified_files : ~Recognized(text_files[unclassified_files[i]])

\* C26: after a real run of organize_files into an empty output directory,
\* stats[shot][model] is the number of files in output_dir/shot/model for
\* every shot and model (here for the runs in which no copy raised).
C26_StatsMatchFilesPresent ==
    (org_pc \in {"returned", "report_raised"} /\ ~dry_run /\ NoCopyRaised) =>
        \A shot \in ShotCategories : \A model \in ModelCategories :
            stats[shot][model] = Cardinality(FilesPresent(shot, model))

\* ----------------------------------------------- claims: the Unknown mode
\* C23: a generated file that is not under <Learning_Mode>/<Model>/ adds no
\* pair in read_summaries: no pair of summary_pairs has Learning_Mode or
\* Model 'Unknown'.
C23_NoUnknownPair ==
    \A k \in DOMAIN summary_pairs :
        /\ summary_pairs[k].Learning_Mode # "Unknown"
        /\ summary_pairs[k].Model # "Unknown"

\* ------------------------------------------------- claims: the section
\* The section under the first paragraph that matches the title: the
\* non-empty paragraphs after it and before the next heading-like paragraph,
\* or up to the end of the document; <<>> when no paragraph matches.
SectionUnder(doc, title_pattern) ==
    LET paragraphs == StrippedParagraphs(doc.paragraphs)
        titles == {i \in DOMAIN paragraphs : TitleMatches(title_pattern, paragraphs[i])}
        title == Min(titles)
        headings == {i \in DOMAIN paragraphs : i > title /\ HeadingLike(paragraphs[i])}
    IN  IF titles = {} THEN <<>>
        ELSE SubSeq(paragraphs, title + 1,
                    IF headings = {} THEN Len(paragraphs) ELSE Min(headings) - 1)

\* C30: when a pattern has been looked for in a readable document, what was
\* saved for it is the section under the first matching title, none of its
\* paragraphs dropped, and nothing is saved when there is no such section.
C30_SectionUnderTitle ==
    [][(ex_j' = ex_j + 1 /\ ex_content[ex_i].readable) =>
          LET section == SectionUnder(ex_content[ex_i], ex_patterns[ex_j + 1])
              got == extract_text_under_title(ex_content[ex_i], ex_patterns[ex_j + 1])
              name == OutputFilename(get_document_number(doc_files[ex_i]), got.title)
          IN  /\ section = <<>> => ex_saved' = ex_saved
              /\ ex_saved' # ex_saved => ex_saved'[name] = section]_vars

\* ---------------------------------------------------------------------------
\* C24 and C27: what the copies of rename_files land on
\* ---------------------------------------------------------------------------

\* The files the new paths of the map name.
ResolvedTargets == [ j \in DOMAIN rename_map |-> Resolve(rename_map[j].new_path, <<>>) ]

\* C24: whenever the copy pass of rename_files runs, the rename map is
\* injective, so that no copy of the run overwrites another copy of the run:
\* no two files of the map are copied onto the same file.
C24_CopyPassInjective ==
    rn_pc = "copy" =>
        \A j, k \in DOMAIN rename_map :
            ResolvedTargets[j] = ResolvedTargets[k] => j = k

\* The files of the input directory before the run, as paths from the
\* directory the input directory is in.
InputFilesBefore ==
    { InputDir \o rn_tree[k].path : k \in { n \in DOMAIN rn_tree : rn_tree[n].kind = "file" } }

\* C27: rename_files leaves the source files untouched: with an output
\* directory that is not the input directory nor inside it, no copy of the
\* run writes a file that was in the input directory before the run.
C27_SourcesUntouched ==
    \A k \in DOMAIN rn_fs :
        rn_fs[k].op = "copy" => rn_fs[k].dst \notin InputFilesBefore

\* ---------------------------------------------------------------------------
\* C29: the dry run predicts the real run
\* ---------------------------------------------------------------------------

\* The loop of organize_files in a dry run, from file k on: every file is
\* classified and counted, none is copied.
RECURSIVE DryRunFrom(_, _, _)
DryRunFrom(files, k, acc) ==
    IF k > Len(files) THEN acc
    ELSE LET categories == determine_categories(files[k])
             digits == get_six_digit_number(files[k])
         IN  IF NotAll(categories[1], categories[2], digits)
             THEN DryRunFrom(files, k + 1,
                    [acc EXCEPT !.stats["unclassified"] = @ + 1,
                                !.unclassified = @ + 1])
             ELSE DryRunFrom(files, k + 1,
                    [acc EXCEPT !.stats[categories[1]][categories[2]] = @ + 1,
                                !.successful_moves = @ + 1])

\* What organize_files computes in a dry run over the files of this run.
DryRun ==
    DryRunFrom(text_files, 1,
               [stats |-> InitialStats, successful_moves |-> 0, unclassified |-> 0])

\* The counters of this run of organize_files are those of the dry run.
CountersAsDryRun ==
    /\ stats = DryRun.stats
    /\ successful_moves = DryRun.successful_moves
    /\ Len(unclassified_files) = DryRun.unclassified

\* What rename_files plans and returns in a dry run with the arguments and
\* the input tree of this run.
DryRename ==
    LET args == [rn_args EXCEPT !.dry_run = TRUE]
        files == find_files(rn_tree, args.recursive)
        pass == FirstPass(args, files, 1, <<>>)
    IN  [rename_map |-> pass.rename_map,
         conflict |-> pass.conflict,
         result |-> IF files # <<>> /\ ~pass.conflict /\ Len(pass.rename_map) > 0
                    THEN "True" ELSE "False"]

\* No copy of this run of rename_files raised.
NoRenameCopyRaised == successful_renames = rn_processed

\* C29: for the same input and arguments the real run computes what the
\* dry run computes (a state of either run is compared with the result of the
\* dry run): organize_files the same stats table, successful_moves,
\* unclassified count and return value, rename_files the same rename map and
\* return value, provided every copy of the real run succeeds and the real
\* run returns at all, that is neither the report of organize_files nor the
\* output directory of rename_files failed to be written.
C29_DryRunPredictsRealRun ==
    /\ (LoopEnded /\ NoCopyRaised) => CountersAsDryRun
    /\ (org_pc = "returned" /\ text_files # <<>> /\ NoCopyRaised)
          => org_result = (DryRun.successful_moves > 0)
    /\ (org_pc = "exited" /\ text_files # <<>> /\ processed_files = Len(text_files)
           /\ (dry_run \/ report # <<>>) /\ NoCopyRaised)
          => org_exit = IF DryRun.successful_moves > 0 THEN 0 ELSE 1
    /\ (rn_pc \in {"copy", "returned", "raised"} /\ ~DryRename.conflict)
          => rename_map = DryRename.rename_map
    /\ (rn_pc = "returned" /\ NoRenameCopyRaised) => rn_result = DryRename.result
    /\ (rn_pc = "exited" /\ rn_result # Unset /\ NoRenameCopyRaised)
          => rn_exit = IF DryRename.result = "True" THEN 0 ELSE 1

\* C29, witness: a real run of organize_files that copied two files and left
\* one unclassified has returned, or a real run of rename_files that copied
\* two files has returned.
C29_Witness ==
    \/ /\ org_pc = "returned" /\ ~dry_run /\ NoCopyRaised
       /\ successful_moves = 2 /\ stats["unclassified"] = 1
    \/ /\ rn_pc = "returned" /\ ~rn_args.dry_run /\ NoRenameCopyRaised
       /\ successful_renames = 2

\* C29 as stated, with the success of the copies as the only proviso: the
\* exit status of a real run whose copies all succeeded is the one of the
\* dry run.
C29_ExitStatusAsDryRun ==
    /\ (org_pc = "exited" /\ text_files # <<>> /\ processed_files = Len(text_files)
           /\ NoCopyRaised)
          => org_exit = IF DryRun.successful_moves > 0 THEN 0 ELSE 1
    /\ (rn_pc = "exited" /\ rn_files # <<>> /\ rename_map = DryRename.rename_map
           /\ ~DryRename.result = "False" /\ NoRenameCopyRaised)
          => rn_exit = 0

\* ---------------------------------------------------------------------------
\* C22: what count_strings_in_file counts
\* ---------------------------------------------------------------------------

\* The places of a line where the target occurs, overlapping ones included.
Occurrences(line, target) ==
    Cardinality({ i \in 1..(Len(line) - Len(target) + 1) :
                     SubSeq(line, i, i + Len(target) - 1) = target })

RECURSIVE OccurrencesIn(_, _)
OccurrencesIn(lines, target) ==
    IF lines = <<>> THEN 0
    ELSE Occurrences(Head(lines), target) + OccurrencesIn(Tail(lines), target)

\* The targets of the command line are all different.
DistinctTargets ==
    \A j, k \in DOMAIN target_strings : target_strings[j] = target_strings[k] => j = k

\* C22: for each target string count_strings_in_file counts every occurrence
\* of it in the lines of the file, overlapping occurrences included ('aa' in
\* 'aaa' counts 2), summed over the lines; here for every file that was read,
\* the targets being all different.
C22_CountsOverlapping ==
    DistinctTargets =>
        \A f \in DOMAIN cn_reads : \A k \in DOMAIN target_strings :
            GetCount(count_strings_in_file(<<>>, cn_reads[f].lines, target_strings),
                     target_strings[k])
              = OccurrencesIn(cn_reads[f].lines, target_strings[k])

\* ---------------------------------------------------------------------------
\* C28: the Frequency of a target string
\* ---------------------------------------------------------------------------

RECURSIVE CountIn(_, _)
CountIn(lines, target) ==
    IF lines = <<>> THEN 0
    ELSE Count(Head(lines), target) + CountIn(Tail(lines), target)

\* What line.count finds of a target in the lines read from the files from k on.
RECURSIVE TotalCount(_, _, _)
TotalCount(reads, k, target) ==
    IF k > Len(reads) THEN 0
    ELSE CountIn(reads[k].lines, target) + TotalCount(reads, k + 1, target)

\* C28: the Frequency reported for a target string is the total of its
\* occurrences (as line.count finds them) over all the matching files,
\* whatever the list of target strings: a target listed twice is not counted
\* more than once, and there is exactly one row per distinct target string.
C28_FrequencyIsTotal ==
    (ce_pc = "done" /\ matching_files # <<>>) =>
        /\ \A j, k \in DOMAIN aggregated :
              aggregated[j].String = aggregated[k].String => j = k
        /\ {aggregated[k].String : k \in DOMAIN aggregated}
              = {target_strings[k] : k \in DOMAIN target_strings}
        /\ \A k \in DOMAIN aggregated :
              aggregated[k].Frequency = TotalCount(cn_reads, 1, aggregated[k].String)

\* ---------------------------------------------------------------------------
\* C21: the CSV round trip
\* ---------------------------------------------------------------------------

\* csv.reader over the text of a file opened with newline='': fields are
\* split at the commas and rows at the line ends that are outside quotes, and
\* a doubled quote inside quotes is one quote.  state is "row_start",
\* "field_start", "field", "quoted" or "quote_in_quoted".
RECURSIVE ParseCsv(_, _, _, _, _)
ParseCsv(text, state, field, row, rows) ==
    IF text = <<>>
    THEN IF state = "row_start" THEN rows ELSE Append(rows, Append(row, field))
    ELSE LET c == Head(text)
             rest == Tail(text)
             outside == IF state = "quote_in_quoted" THEN "field" ELSE state
         IN  IF state = "quoted"
             THEN IF c = "\""
                  THEN ParseCsv(rest, "quote_in_quoted", field, row, rows)
                  ELSE ParseCsv(rest, "quoted", Append(field, c), row, rows)
             ELSE IF state = "quote_in_quoted" /\ c = "\""
             THEN ParseCsv(rest, "quoted", Append(field, c), row, rows)
             ELSE IF c = ","
             THEN ParseCsv(rest, "field_start", <<>>, Append(row, field), rows)
             ELSE IF c \in {"\r", "\n"}
             THEN LET after == IF c = "\r" /\ rest # <<>> /\ Head(rest) = "\n"
                               THEN Tail(rest) ELSE rest
                  IN  ParseCsv(after, "row_start", <<>>, <<>>,
                               IF outside = "row_start" THEN rows
                               ELSE Append(rows, Append(row, field)))
             ELSE IF c = "\"" /\ outside \in {"row_start", "field_start"}
             THEN ParseCsv(rest, "quoted", field, row, rows)
             ELSE ParseCsv(rest, "field", Append(field, c), row, rows)

\* int(text) of a text of digits.
RECURSIVE ParseInt(_, _)
ParseInt(text, n) ==
    IF text = <<>> THEN n
    ELSE ParseInt(Tail(text),
                  10 * n + (CHOOSE d \in 0..9 : DigitSeq[d + 1] = Head(text)))

\* The rows csv.DictReader gives for the output file, Frequency as a number.
ParsedBack ==
    LET rows == ParseCsv(csv_text, "row_start", <<>>, <<>>, <<>>)
    IN  [k \in 1..(Len(rows) - 1) |->
            [String |-> rows[k + 1][1], Frequency |-> ParseInt(rows[k + 1][2], 0)]]

\* CountError.py and AutomaticMetric.py, one of them run per behaviour.
InitCsv == InitCountError \/ InitMetric

NextCsv == NextCountError \/ NextMetric

SpecCsv == InitCsv /\ [][NextCsv]_vars

\* The keys and the whole numbers of a row of automatic_scores.csv as the
\* writer gets them.
KeyFields(row) == << row["file_name"], row["reference_file"], Str(row["sum"]), Str(row["rank"]) >>

\* C21: the rows written to the output CSV, parsed back, are the items of the
\* aggregate: one row per item, in the same order, with the same key (commas,
\* quotes and line ends in it included) and the same number.  For
\* automatic_scores.csv: one row per result in the order of the results, with
\* the values of the result, and its keys and numbers written and parsed back
\* are the same.
C21_CsvRoundTrip ==
    /\ (ce_pc = "done" /\ csv_text # <<>>) =>
          LET rows == ParseCsv(csv_text, "row_start", <<>>, <<>>, <<>>)
          IN  /\ Len(rows) = Len(aggregated) + 1
              /\ rows[1] = CsvHeader
              /\ \A k \in 2..Len(rows) : Len(rows[k]) = 2
              /\ ParsedBack = aggregated
    /\ am_pc = "done" =>
          /\ Len(csv_rows) = Len(results)
          /\ \A k \in DOMAIN csv_rows :
                /\ \A f \in {"learning_model", "model", "file_name", "file_path",
                              "reference_file", "sum", "rank"} :
                       csv_rows[k][f] = results[k][f]
                /\ \A f \in MetricSet : csv_rows[k][f] = results[k]["scores"][f]
                /\ LET back == ParseCsv(WriteRow(KeyFields(csv_rows[k]), 1),
                                        "row_start", <<>>, <<>>, <<>>)
                   IN  /\ back = << KeyFields(csv_rows[k]) >>
                       /\ ParseInt(back[1][3], 0) = results[k]["sum"]
                       /\ ParseInt(back[1][4], 0) = results[k]["rank"]

\* C21, witness: a file was written whose keys hold a comma and a quote, the
\* key with the comma having been found once at least; and one whose key
\* holds a line end.
C21_Witness ==
    /\ ce_pc = "done"
    /\ csv_text # <<>>
    /\ Len(aggregated) = 2
    /\ \E k \in DOMAIN aggregated[1].String : aggregated[1].String[k] = ","
    /\ \E k \in DOMAIN aggregated[2].String : aggregated[2].String[k] = "\""
    /\ aggregated[1].Frequency > 0

====
